---- MODULE Spec2Model ----
(***************************************************************************)
(* Model of the dips-ojos-web backend (Go/Gin/SQLite) and of the auth part *)
(* of its Preact frontend.                                                 *)
(*                                                                         *)
(* The SQL tables are sets of records.  backend/models/transit.go still    *)
(* names the tables Transitos / CurvasDeLuz while the other models use the *)
(* names of migration 004 (Transits / Curves); both names denote the same  *)
(* table here.                                                             *)
(*                                                                         *)
(* Text read from a CSV file or from a URL is a sequence of one-character  *)
(* strings, so that strconv.Atoi / strconv.ParseFloat are computed, not    *)
(* assumed.  A float64 is kept as a count of tenths (fixed point).         *)
(***************************************************************************)
EXTENDS Integers, Sequences, FiniteSets, TLC

VARIABLES
    now,              \* wall clock of the server (time.Now), in ticks
    Users,            \* table Users
    userSeq,          \* sqlite_sequence of Users (AUTOINCREMENT)
    Curves,           \* table Curves (CurvasDeLuz)
    Transits,         \* table Transits (Transitos)
    transitSeq,       \* sqlite_sequence of Transits (AUTOINCREMENT)
    Classifications,  \* table Classifications
    curvesCsv,        \* the curves.csv LoadCurvesFromCSV last loaded
    transitsCsv,      \* the transits.csv LoadTransitsFromCSV last loaded
    loads,            \* number of CSV loads done (startups)
    lastReq,          \* the HTTP request last served, and when
    lastResp,         \* its response
    issued,           \* the JWTs handed out by handlers.Login that clients hold
    token,            \* frontend: stores/auth.js signal token
    user,             \* frontend: stores/auth.js signal user
    storage,          \* frontend: localStorage (emoons_token, emoons_user)
    inflight,         \* frontend: fetch() calls awaiting their response
    lastError,        \* frontend: the Error thrown by the last request()
    transits,         \* TransitViewer: state transits
    currentIndex,     \* TransitViewer: state currentIndex
    keyHandler,       \* TransitViewer: what the registered keydown listener closes over
    effectsPending,   \* TransitViewer: rendered, useEffect callbacks not yet run
    pendingLoads,     \* TransitViewer: calls of loadTransits awaiting api.getCurveTransits
    inputDir,         \* plotter: the light-curve files of the input directory
    runCfg,           \* plotter: the run in progress and its flags
    jobs,             \* plotter: per input file, how far its pipeline got and its results
    summary,          \* plotter: the run summary (processed/skipped/failed)
    plots,            \* plotter: the PNG files of the output directory
    outCsv            \* plotter: transits.csv and curves.csv of the output directory

dbVars == <<Users, userSeq, Curves, Transits, transitSeq, Classifications>>
csvVars == <<curvesCsv, transitsCsv, loads>>
httpVars == <<lastReq, lastResp, issued>>
viewVars == <<transits, currentIndex, keyHandler, effectsPending, pendingLoads>>
feVars == <<token, user, storage, inflight, lastError, viewVars>>
plotVars == <<inputDir, runCfg, jobs, summary, plots, outCsv>>
vars == <<now, dbVars, csvVars, httpVars, feVars, plotVars>>

\* A nullable value (a Go pointer, an SQL NULL, a row that may be missing)
\* is the empty sequence or the one-element sequence holding the value.
NULL == <<>>
Ptr(v) == <<v>>

(***************************************************************************)
(* Bounds of the model.                                                    *)
(***************************************************************************)
MaxRows == 2        \* data rows of a generated transits.csv
MaxLoads == 3       \* CSV loads (server startups) in one behaviour

(***************************************************************************)
(* strconv.Atoi and strconv.ParseFloat on character sequences.             *)
(***************************************************************************)
Digits == {"0", "1", "2", "3", "4", "5", "6", "7", "8", "9"}

DigitVal(c) ==
    CASE c = "0" -> 0 [] c = "1" -> 1 [] c = "2" -> 2 [] c = "3" -> 3
      [] c = "4" -> 4 [] c = "5" -> 5 [] c = "6" -> 6 [] c = "7" -> 7
      [] c = "8" -> 8 [] c = "9" -> 9

RECURSIVE DecVal(_)
DecVal(s) == IF s = <<>> THEN 0
             ELSE 10 * DecVal(SubSeq(s, 1, Len(s) - 1)) + DigitVal(s[Len(s)])

AllDigits(s) == \A i \in 1..Len(s) : s[i] \in Digits

Signed(s) == Len(s) > 0 /\ s[1] \in {"-", "+"}
Unsigned(s) == IF Signed(s) THEN Tail(s) ELSE s
SignOf(s) == IF Len(s) > 0 /\ s[1] = "-" THEN -1 ELSE 1

\* strconv.Atoi: an optional sign and at least one digit, nothing else.
Atoi(s) ==
    LET body == Unsigned(s) IN
    IF body # <<>> /\ AllDigits(body)
    THEN [ok |-> TRUE, val |-> SignOf(s) * DecVal(body)]
    ELSE [ok |-> FALSE, val |-> 0]

DotAt(s) == IF \E i \in 1..Len(s) : s[i] = "."
            THEN CHOOSE i \in 1..Len(s) : s[i] = "." /\ \A j \in 1..(i - 1) : s[j] # "."
            ELSE 0

\* strconv.ParseFloat(s, 64) on decimal text with at most one fraction
\* digit; the value is returned in tenths.
ParseDecimal(sign, ip, fp) ==
    IF /\ AllDigits(ip) /\ AllDigits(fp)
       /\ Len(ip) + Len(fp) > 0
       /\ Len(fp) <= 1
    THEN [ok |-> TRUE, val |-> sign * (10 * DecVal(ip) + DecVal(fp))]
    ELSE [ok |-> FALSE, val |-> 0]

SplitAtDot(sign, body, d) ==
    IF d = 0 THEN ParseDecimal(sign, body, <<>>)
    ELSE ParseDecimal(sign, SubSeq(body, 1, d - 1), SubSeq(body, d + 1, Len(body)))

ParseFloat(s) == SplitAtDot(SignOf(s), Unsigned(s), DotAt(Unsigned(s)))

\* "if v, err := ParseFloat(f); err == nil { x = v }" into a float64
\* that starts at its zero value.
ValueOrZero(p) == IF p.ok THEN p.val ELSE 0
FloatOrZero(f) == ValueOrZero(ParseFloat(f))

\* "if v, err := ParseFloat(f); err == nil && f != "" { p = &v }" into
\* a *float64 that starts nil.
ValueOrNull(p, f) == IF p.ok /\ f # <<>> THEN Ptr(p.val) ELSE NULL
\* A pointer that is set whatever the field holds.
FloatOrNull_ZeroWhenEmpty(f) == Ptr(FloatOrZero(f))
FloatOrNull(f) == ValueOrNull(ParseFloat(f), f)

\* The same two idioms with strconv.Atoi.
IntOrZero(f) == ValueOrZero(Atoi(f))

IntOrNull(f) == ValueOrNull(Atoi(f), f)

(***************************************************************************)
(* CSV files.  A file is absent or a list of records; a record is a list   *)
(* of fields.  encoding/csv's ReadAll fails when a record has another      *)
(* number of fields than the first record (FieldsPerRecord = 0).           *)
(***************************************************************************)
NoFile == [exists |-> FALSE, records |-> <<>>]
CsvFile(records) == [exists |-> TRUE, records |-> records]

ReadAll(file) ==
    IF ~file.exists THEN [err |-> "failed to open CSV", records |-> <<>>]
    ELSE IF \E i \in 1..Len(file.records) :
                Len(file.records[i]) # Len(file.records[1])
         THEN [err |-> "failed to read CSV", records |-> <<>>]
         ELSE [err |-> "", records |-> file.records]

(***************************************************************************)
(* Table Curves and models.LoadCurvesFromCSV.                              *)
(***************************************************************************)
CurveByFilename(C, filename) ==
    IF \E c \in C : c.filename = filename
    THEN Ptr(CHOOSE c \in C : c.filename = filename)
    ELSE NULL

CurveByID(C, id) ==
    IF \E c \in C : c.id = id THEN Ptr(CHOOSE c \in C : c.id = id) ELSE NULL

\* The column values LoadCurvesFromCSV binds for one record.
CurveOfRecord(record) ==
    [filename              |-> record[1],
     time_min              |-> FloatOrNull(record[2]),
     time_max              |-> FloatOrNull(record[3]),
     num_expected_transits |-> IntOrNull(record[4]),
     data_type             |-> record[6],
     period_days           |-> FloatOrNull(record[7]),
     epoch_bjd             |-> FloatOrNull(record[8]),
     duration_days         |-> FloatOrNull(record[9]),
     planet_radius         |-> FloatOrNull(record[10]),
     semi_major_axis       |-> FloatOrNull(record[11]),
     inclination_deg       |-> FloatOrNull(record[12]),
     u1                    |-> FloatOrNull(record[13]),
     u2                    |-> FloatOrNull(record[14])]

CurveRowOf(id, found, v) ==
    [id |-> id, filename |-> v.filename, time_min |-> v.time_min,
     time_max |-> v.time_max,
     num_expected_transits |-> v.num_expected_transits,
     found_transits |-> found, data_type |-> v.data_type,
     period_days |-> v.period_days, epoch_bjd |-> v.epoch_bjd,
     duration_days |-> v.duration_days, planet_radius |-> v.planet_radius,
     semi_major_axis |-> v.semi_major_axis,
     inclination_deg |-> v.inclination_deg, u1 |-> v.u1, u2 |-> v.u2]

\* INSERT INTO Curves ... ON CONFLICT(filename) DO UPDATE SET ...: a new
\* row gets the next id and found_transits DEFAULT 0; an existing row keeps
\* its id and its found_transits.  Rows of Curves are never deleted, so the
\* next AUTOINCREMENT id is the row count plus one.
UpsertCurve(C, v) ==
    LET old == CurveByFilename(C, v.filename) IN
    IF old = NULL
    THEN C \cup {CurveRowOf(Cardinality(C) + 1, 0, v)}
    ELSE (C \ {old[1]}) \cup {CurveRowOf(old[1].id, old[1].found_transits, v)}

RECURSIVE UpsertCurves(_, _, _)
UpsertCurves(C, records, k) ==
    IF k > Len(records) THEN C
    ELSE LET record == records[k] IN
         IF Len(record) < 14 \/ record[1] = <<>>
         THEN UpsertCurves(C, records, k + 1)
         ELSE UpsertCurves(UpsertCurve(C, CurveOfRecord(record)), records, k + 1)

LoadCurvesFromCSV(C, file) ==
    LET r == ReadAll(file) IN
    IF r.err # "" THEN [err |-> r.err, Curves |-> C]
    ELSE IF Len(r.records) < 2
         THEN [err |-> "CSV has no data rows", Curves |-> C]
         ELSE [err |-> "", Curves |-> UpsertCurves(C, r.records, 2)]

(***************************************************************************)
(* Table Transits and models.LoadTransitsFromCSV.                          *)
(***************************************************************************)
\* The values LoadTransitsFromCSV binds for one record of a known curve.
TransitOfRecord(record, curveID, id) ==
    [id            |-> id,
     curve_id      |-> curveID,
     transit_index |-> IntOrZero(record[2]),
     t0_expected   |-> FloatOrZero(record[3]),
     t0_fitted     |-> FloatOrNull(record[4]),
     ttv_minutes   |-> FloatOrNull(record[5]),
     rp_fitted     |-> FloatOrZero(record[6]),
     a_fitted      |-> FloatOrZero(record[7]),
     rms_residuals |-> FloatOrNull(record[8]),
     period        |-> FloatOrZero(record[9]),
     duration      |-> FloatOrNull(record[10]),
     inc           |-> FloatOrZero(record[11]),
     u1            |-> FloatOrZero(record[12]),
     u2            |-> FloatOrZero(record[13]),
     plot_file     |-> record[14]]

\* UNIQUE (curve_id, transit_index) of table Transits: the INSERT fails
\* when the key is taken.
TransitKeyTaken(T, curveID, index) ==
    \E t \in T : t.curve_id = curveID /\ t.transit_index = index

\* The loop over records[1:]; st = [T, seq, counts] are the table, its
\* AUTOINCREMENT sequence and the transitCounts map (0 = no entry).
RECURSIVE InsertTransits(_, _, _, _)
InsertTransits(C, records, k, st) ==
    IF k > Len(records) THEN st
    ELSE LET record == records[k]
             curve == IF Len(record) < 14 THEN NULL
                      ELSE CurveByFilename(C, record[1])
         IN
         IF Len(record) < 14 \/ curve = NULL
         THEN InsertTransits(C, records, k + 1, st)
         ELSE LET t == TransitOfRecord(record, curve[1].id, st.seq + 1) IN
              IF TransitKeyTaken(st.T, t.curve_id, t.transit_index)
              THEN InsertTransits(C, records, k + 1, st)
              ELSE InsertTransits(C, records, k + 1,
                       [T |-> st.T \cup {t}, seq |-> st.seq + 1,
                        counts |-> [st.counts EXCEPT ![curve[1].id] = @ + 1]])

\* The count of a curve without rows is left as it was.
FoundTransitsAfterLoad_WithoutReset(c, counts) ==
    IF counts[c.id] > 0 THEN counts[c.id] ELSE c.found_transits

\* "UPDATE ... SET found_transits = 0", then one UPDATE per entry of
\* transitCounts.
FoundTransitsAfterLoad(c, counts) ==
    IF counts[c.id] > 0 THEN counts[c.id] ELSE 0

\* A loader that clears the table and the counts before it looks at the
\* records.
LoadTransitsFromCSV_ClearsFirst(C, T, seq, file) ==
    LET r == ReadAll(file)
        C0 == {[c EXCEPT !.found_transits = 0] : c \in C}
    IN
    IF r.err # "" THEN [err |-> r.err, Curves |-> C0, Transits |-> {}, seq |-> seq]
    ELSE IF Len(r.records) < 2
    THEN [err |-> "CSV has no data rows", Curves |-> C0, Transits |-> {}, seq |-> seq]
    ELSE LET st == InsertTransits(C, r.records, 2,
                       [T |-> {}, seq |-> seq,
                        counts |-> [id \in {c.id : c \in C} |-> 0]])
         IN [err |-> "",
             Curves |-> {[c EXCEPT !.found_transits =
                              FoundTransitsAfterLoad(c, st.counts)] : c \in C},
             Transits |-> st.T,
             seq |-> st.seq]

LoadTransitsFromCSV(C, T, seq, file) ==
    LET r == ReadAll(file) IN
    IF r.err # "" THEN [err |-> r.err, Curves |-> C, Transits |-> T, seq |-> seq]
    ELSE IF Len(r.records) < 2
    THEN [err |-> "CSV has no data rows", Curves |-> C, Transits |-> T, seq |-> seq]
    ELSE LET st == InsertTransits(C, r.records, 2,
                       [T |-> {}, seq |-> seq,
                        counts |-> [id \in {c.id : c \in C} |-> 0]])
         IN [err |-> "",
             Curves |-> {[c EXCEPT !.found_transits =
                              FoundTransitsAfterLoad(c, st.counts)] : c \in C},
             Transits |-> st.T,
             seq |-> st.seq]

\* models.GetTransit: the row of the join Transits x Curves with this
\* filename and transit_index, or nil.
GetTransit(C, T, filename, index) ==
    LET curve == CurveByFilename(C, filename) IN
    IF curve # NULL /\ \E t \in T : t.curve_id = curve[1].id /\ t.transit_index = index
    THEN Ptr(CHOOSE t \in T : t.curve_id = curve[1].id /\ t.transit_index = index)
    ELSE NULL

\* models.GetTransitsForFile, as the set of rows (ORDER BY transit_index).
GetTransitsForFile(C, T, filename) ==
    LET curve == CurveByFilename(C, filename) IN
    IF curve = NULL THEN {} ELSE {t \in T : t.curve_id = curve[1].id}

(***************************************************************************)
(* The CSV files the plotter may leave in plots/: the inputs of the        *)
(* loaders.                                                                *)
(***************************************************************************)
FA == <<"a">>
FB == <<"b">>
FZ == <<"z">>      \* a light curve that is not in table Curves

SeqsUpTo(S, n) == UNION {[1..k -> S] : k \in 0..n}

\* One record of transits.csv: filename, transit_index, t0_expected,
\* t0_fitted, ttv_minutes, rp_fitted, a_fitted, rms_residuals, period,
\* duration, inc, u1, u2, plot_file.  d is a digit that tells records
\* apart; prof says which fields the exporter left empty.
TransitRecord(f, i, d, prof) ==
    LET fit == IF prof = "full" THEN <<d, ".", "5">> ELSE <<>>
        ttv == IF prof = "full" THEN <<"7", "2", "0">> ELSE <<>>
        rms == IF prof = "full" THEN <<"0", ".", "2">> ELSE <<>>
        rp  == IF prof \in {"full", "unfitted"} THEN <<"0", ".", "1">> ELSE <<>>
        a   == IF prof \in {"full", "unfitted"} THEN <<"8">> ELSE <<>>
        cat(x) == IF prof = "blank" THEN <<>> ELSE x
    IN <<f, i, cat(<<d>>), fit, ttv, rp, a, rms, cat(<<"2", ".", "3">>),
         cat(<<"0", ".", "3">>), cat(<<"8", "9">>), cat(<<"0", ".", "4">>),
         cat(<<"0", ".", "6">>), f \o <<"_">> \o i \o <<".png">>>>

\* Two records of one transit (a/0), a record without index, and a record
\* of a second light curve.
TransitRows ==
    { TransitRecord(FA, <<"0">>, "1", "full"),
      TransitRecord(FA, <<"0">>, "2", "fitfail"),
      TransitRecord(FA, <<>>,    "3", "blank"),
      TransitRecord(FB, <<"1">>, "4", "unfitted") }

\* One record of curves.csv: filename, time_min, time_max,
\* num_expected_transits, found_transits, data_type, period, epoch,
\* duration, rp, a, inc, u1, u2.
CurveRecord(f, prof) ==
    LET cat(x) == IF prof = "blank" THEN <<>> ELSE x IN
    <<f, cat(<<"1">>), cat(<<"3", "1">>), cat(<<"3">>), cat(<<"7">>),
      cat(<<"sim">>), cat(<<"2", ".", "3">>), cat(<<"1", ".", "5">>),
      cat(<<"0", ".", "3">>), cat(<<"0", ".", "1">>), cat(<<"8">>),
      cat(<<"8", "9">>), cat(<<"0", ".", "4">>), cat(<<"0", ".", "6">>)>>


HeaderRecord(n) == [i \in 1..n |-> <<"h">>]

\* A file whose records all have 13 fields, and a file whose second
\* record is shorter than its header.
NarrowFile(r) == CsvFile(<<HeaderRecord(13), SubSeq(r, 1, 13)>>)
RaggedFile(r) == CsvFile(<<HeaderRecord(14), SubSeq(r, 1, 13)>>)

\* transits.csv: absent, a header and up to MaxRows records, narrow, ragged.
TransitFiles ==
    {NoFile, NarrowFile(TransitRecord(FA, <<"0">>, "1", "full")),
     RaggedFile(TransitRecord(FA, <<"0">>, "1", "full"))}
    \cup {CsvFile(<<HeaderRecord(14)>> \o rs) : rs \in SeqsUpTo(TransitRows, MaxRows)}

\* curves.csv: absent, header only, one or two light curves, a record with
\* an empty filename, narrow, ragged.
CurveFiles ==
    {NoFile, NarrowFile(CurveRecord(FA, "full")),
     RaggedFile(CurveRecord(FA, "full")),
     CsvFile(<<HeaderRecord(14)>>),
     CsvFile(<<HeaderRecord(14), CurveRecord(FA, "full")>>),
     CsvFile(<<HeaderRecord(14), CurveRecord(FA, "full"), CurveRecord(FB, "full")>>),
     CsvFile(<<HeaderRecord(14), CurveRecord(<<>>, "full"), CurveRecord(FA, "blank"),
               CurveRecord(FB, "full")>>)}

(***************************************************************************)
(* State outside the database.                                             *)
(***************************************************************************)
NoReq == [route |-> "none", header |-> <<>>, file |-> <<>>, index |-> <<>>,
          id |-> <<>>, body |-> NULL, at |-> 0]
NoResp == [status |-> 0, error |-> "", handler |-> "none", body |-> NULL]

\* What a loader returned, kept where the responses are kept: the loaders
\* run at startup and answer no request.
Returned(loader, err) ==
    [status |-> 0, error |-> err, handler |-> loader, body |-> NULL]

InitHttp == lastReq = NoReq /\ lastResp = NoResp /\ issued = {}

InitFrontend ==
    /\ token = NULL /\ user = NULL
    /\ storage = [emoons_token |-> NULL, emoons_user |-> NULL]
    /\ inflight = <<>>
    /\ lastError = ""
    /\ transits = <<>> /\ currentIndex = 0
    /\ keyHandler = [currentIndex |-> 0, length |-> 0]
    /\ effectsPending = FALSE /\ pendingLoads = 0

\* The plotter before its first run, with an empty output directory.
NoSummary == [processed |-> 0, skipped |-> 0, failed |-> 0]
Idle == [run |-> 0, force |-> FALSE, skip_fitting |-> FALSE, phase |-> "idle"]
EmptyOutCsv == [transits |-> NoFile, curves |-> NoFile, writes |-> 0]
InitPlotter ==
    /\ inputDir = <<>> /\ runCfg = Idle /\ jobs = <<>>
    /\ summary = NoSummary /\ plots = {} /\ outCsv = EmptyOutCsv

(***************************************************************************)
(* Startup: main.go loads the CSV files before it serves requests.  The    *)
(* database file outlives the process, so a later startup loads into the   *)
(* tables the earlier one left.                                            *)
(***************************************************************************)
InitLoad ==
    /\ now = 0
    /\ Users = {} /\ userSeq = 0
    /\ Curves = {} /\ Transits = {} /\ transitSeq = 0
    /\ Classifications = {}
    /\ curvesCsv = NoFile /\ transitsCsv = NoFile /\ loads = 0
    /\ InitHttp /\ InitFrontend /\ InitPlotter

StartupLoadCurves(file) ==
    /\ loads < MaxLoads
    /\ \E r \in {LoadCurvesFromCSV(Curves, file)} :
       /\ Curves' = r.Curves
       /\ lastResp' = Returned("LoadCurvesFromCSV", r.err)
       /\ curvesCsv' = IF r.err = "" THEN file ELSE curvesCsv
    /\ loads' = loads + 1
    /\ UNCHANGED <<now, Users, userSeq, Transits, transitSeq, Classifications,
                   transitsCsv, lastReq, issued, feVars, plotVars>>

\* main.go: "if err := models.LoadTransitsFromCSV(csvPath); err != nil {
\* log.Printf(Warning ...) }": startup goes on either way.
StartupLoadTransits(file) ==
    /\ loads < MaxLoads
    /\ \E r \in {LoadTransitsFromCSV(Curves, Transits, transitSeq, file)} :
       /\ Curves' = r.Curves
       /\ Transits' = r.Transits
       /\ transitSeq' = r.seq
       /\ lastResp' = Returned("LoadTransitsFromCSV", r.err)
       /\ transitsCsv' = IF r.err = "" THEN file ELSE transitsCsv
    /\ loads' = loads + 1
    /\ UNCHANGED <<now, Users, userSeq, Classifications, curvesCsv, lastReq,
                   issued, feVars, plotVars>>

NextLoad ==
    \/ \E file \in CurveFiles : StartupLoadCurves(file)
    \/ \E file \in TransitFiles : StartupLoadTransits(file)

SpecLoad == InitLoad /\ [][NextLoad]_vars

(***************************************************************************)
(* middleware: JWTs, AuthRequired, AdminRequired.                          *)
(*                                                                         *)
(* An Authorization header is a sequence of symbols: words, the space, and *)
(* JWT strings.  A JWT string is the record of what it encodes: its claims *)
(* and whether its signature was made with jwtSecret.                      *)
(***************************************************************************)
TokenTTL == 1      \* 24 * time.Hour, in ticks of the clock

Word(text) == [kind |-> "word", text |-> text, user_id |-> 0, username |-> "",
               is_admin |-> FALSE, exp |-> 0, sig |-> ""]
SP == Word(" ")
JWT(id, name, admin, exp, sig) ==
    [kind |-> "jwt", text |-> "", user_id |-> id, username |-> name,
     is_admin |-> admin, exp |-> exp, sig |-> sig]

\* middleware.GenerateToken: HS256 over the claims with jwtSecret.
GenerateToken(u, t) == JWT(u.id, u.username, u.is_admin, t + TokenTTL, "jwtSecret")

\* strings.Split(header, " ")
RECURSIVE Split(_)
Split(h) ==
    IF \A i \in 1..Len(h) : h[i] # SP THEN <<h>>
    ELSE LET i == CHOOSE i \in 1..Len(h) : h[i] = SP /\ \A j \in 1..(i - 1) : h[j] # SP
         IN <<SubSeq(h, 1, i - 1)>> \o Split(SubSeq(h, i + 1, Len(h)))

\* A verification that does not look at the expiry time.
TokenValid_IgnoringExpiry(tokenString, t) ==
    /\ Len(tokenString) = 1
    /\ tokenString[1].kind = "jwt"
    /\ tokenString[1].sig = "jwtSecret"

\* jwt.ParseWithClaims(tokenString, claims, keyfunc) && token.Valid: the
\* string is one well-formed JWT, signed with jwtSecret, and not expired
\* (golang-jwt v5: now.Before(exp)).
TokenValid(tokenString, t) ==
    /\ Len(tokenString) = 1
    /\ tokenString[1].kind = "jwt"
    /\ tokenString[1].sig = "jwtSecret"
    /\ t < tokenString[1].exp

NoCtx == [user_id |-> 0, username |-> "", is_admin |-> FALSE]

Unauthorized(msg) == [status |-> 401, error |-> msg, ctx |-> NoCtx]

AuthAfterSplit(parts, t) ==
    IF Len(parts) # 2 \/ parts[1] # <<Word("Bearer")>>
    THEN Unauthorized("Invalid authorization format")
    ELSE IF ~TokenValid(parts[2], t)
    THEN Unauthorized("Invalid token")
    ELSE [status |-> 200, error |-> "",
          ctx |-> [user_id |-> parts[2][1].user_id,
                   username |-> parts[2][1].username,
                   is_admin |-> parts[2][1].is_admin]]

\* middleware.AuthRequired: the outcome of the middleware on a header at
\* time t; status 200 stands for c.Next().
AuthRequired(header, t) ==
    IF header = <<>> THEN Unauthorized("Authorization header required")
    ELSE AuthAfterSplit(Split(header), t)

\* An admin check that lets every authenticated request through.
AdminRequired_LetsAllThrough(a) == a

\* middleware.AdminRequired, after AuthRequired let the request through.
AdminRequired(a) ==
    IF ~a.ctx.is_admin
    THEN [status |-> 403, error |-> "Admin access required", ctx |-> a.ctx]
    ELSE a

\* The middleware chain of a route of main.go: every route of group /api
\* runs AuthRequired, the routes of /api/admin then run AdminRequired.
AdminRoutes == {"ListUsers", "CreateUser", "UpdateUser", "DeleteUser",
                "GetUserStats", "ExportUserClassifications"}
ApiRoutes == {"GetMe", "Logout", "GetCurves", "GetCurve", "GetCurveTransits",
              "GetTransitsByFile", "GetTransit", "GetClassification",
              "SaveClassification", "DeleteCurveClassifications", "GetStats"}
              \cup AdminRoutes

Middleware(route, header, t) ==
    IF route \notin ApiRoutes THEN [status |-> 200, error |-> "", ctx |-> NoCtx]
    ELSE IF AuthRequired(header, t).status # 200 THEN AuthRequired(header, t)
    ELSE IF route \in AdminRoutes THEN AdminRequired(AuthRequired(header, t))
    ELSE AuthRequired(header, t)

\* A response written by a middleware that aborted the chain, and one
\* written by the handler of the route.
Aborted(m) == [status |-> m.status, error |-> m.error, handler |-> "none",
               body |-> NULL]
Reply(handler, status, error, body) ==
    [status |-> status, error |-> error, handler |-> handler, body |-> body]

(***************************************************************************)
(* Table Users and handlers.Login.                                         *)
(***************************************************************************)
\* bcrypt: the hash of a password, and User.CheckPassword.
Hash(password) == <<"bcrypt", password>>
CheckPassword(u, password) == u.password_hash = Hash(password)

UserRow(id, username, password, fullname, admin) ==
    [id |-> id, username |-> username, password_hash |-> Hash(password),
     fullname |-> fullname, is_admin |-> admin]

\* json.Marshal of a models.User: password_hash is tagged json:"-".
UserJSON(u) == [id |-> u.id, username |-> u.username,
                fullname |-> u.fullname, is_admin |-> u.is_admin]

\* models.GetUserByUsername / models.GetUserByID: sql.ErrNoRows is
\* returned as an error, here NULL.
GetUserByUsername(U, username) ==
    IF \E u \in U : u.username = username
    THEN Ptr(CHOOSE u \in U : u.username = username) ELSE NULL

GetUserByID(U, id) ==
    IF \E u \in U : u.id = id THEN Ptr(CHOOSE u \in U : u.id = id) ELSE NULL

\* handlers.Login on the JSON body [username, password]; binding:"required"
\* rejects an empty field.
Login(U, body, t) ==
    IF body.username = "" \/ body.password = ""
    THEN Reply("Login", 400, "Invalid request", NULL)
    ELSE IF GetUserByUsername(U, body.username) = NULL
    THEN Reply("Login", 401, "Invalid credentials", NULL)
    ELSE IF ~CheckPassword(GetUserByUsername(U, body.username)[1], body.password)
    THEN Reply("Login", 401, "Invalid credentials", NULL)
    ELSE Reply("Login", 200, "",
               [token |-> GenerateToken(GetUserByUsername(U, body.username)[1], t),
                user |-> UserJSON(GetUserByUsername(U, body.username)[1])])

(***************************************************************************)
(* Table Classifications and models/classification.go.  A row is keyed by  *)
(* UNIQUE (curve_id, transit_index, user_id); its AUTOINCREMENT id plays   *)
(* no part in any query and is left out.                                   *)
(***************************************************************************)
\* The flag fields of models.ClassificationInput, and the checkboxes of
\* the frontend's ClassificationForm.
InputFlags == {"left_asymmetry", "right_asymmetry", "increased_flux",
               "decreased_flux", "normal_transit", "anomalous_morphology",
               "marked_tdv"}
FormFlags == InputFlags \cup {"bad_model_fit"}

\* A member of a JSON object, or the zero value when it is absent.
Field(json, name, zero) == IF name \in DOMAIN json THEN json[name] ELSE zero

\* c.ShouldBindJSON(&input) for models.ClassificationInput: members the
\* struct does not declare are dropped; a body that is not JSON is an error.
ShouldBindJSON(body) ==
    IF body = NULL THEN [err |-> "invalid", input |-> NULL]
    ELSE [err |-> "",
          input |-> Ptr(
            [t_expected_bjd       |-> Field(body[1], "t_expected_bjd", NULL),
             t_observed_bjd       |-> Field(body[1], "t_observed_bjd", NULL),
             ttv_minutes          |-> Field(body[1], "ttv_minutes", NULL),
             left_asymmetry       |-> Field(body[1], "left_asymmetry", FALSE),
             right_asymmetry      |-> Field(body[1], "right_asymmetry", FALSE),
             increased_flux       |-> Field(body[1], "increased_flux", FALSE),
             decreased_flux       |-> Field(body[1], "decreased_flux", FALSE),
             normal_transit       |-> Field(body[1], "normal_transit", FALSE),
             anomalous_morphology |-> Field(body[1], "anomalous_morphology", FALSE),
             marked_tdv           |-> Field(body[1], "marked_tdv", FALSE),
             notes                |-> Field(body[1], "notes", "")])]

ClassificationRow(curveID, transitIndex, userID, input, t) ==
    [curve_id |-> curveID, transit_index |-> transitIndex, user_id |-> userID,
     t_expected_bjd |-> input.t_expected_bjd,
     t_observed_bjd |-> input.t_observed_bjd,
     ttv_minutes |-> input.ttv_minutes,
     left_asymmetry |-> input.left_asymmetry,
     right_asymmetry |-> input.right_asymmetry,
     increased_flux |-> input.increased_flux,
     decreased_flux |-> input.decreased_flux,
     normal_transit |-> input.normal_transit,
     anomalous_morphology |-> input.anomalous_morphology,
     marked_tdv |-> input.marked_tdv,
     notes |-> input.notes,
     timestamp |-> t]

SameKey(r, curveID, transitIndex, userID) ==
    r.curve_id = curveID /\ r.transit_index = transitIndex /\ r.user_id = userID

\* models.GetClassification
GetClassification(Cl, curveID, transitIndex, userID) ==
    IF \E r \in Cl : SameKey(r, curveID, transitIndex, userID)
    THEN Ptr(CHOOSE r \in Cl : SameKey(r, curveID, transitIndex, userID))
    ELSE NULL

\* models.SaveClassification: INSERT ... ON CONFLICT(curve_id,
\* transit_index, user_id) DO UPDATE.  With _foreign_keys=on the INSERT
\* fails when user_id or curve_id names no row.
SaveClassification(Cl, U, C, curveID, transitIndex, userID, input, t) ==
    IF GetUserByID(U, userID) = NULL \/ CurveByID(C, curveID) = NULL
    THEN [err |-> "FOREIGN KEY constraint failed", Classifications |-> Cl]
    ELSE [err |-> "",
          Classifications |->
              {r \in Cl : ~SameKey(r, curveID, transitIndex, userID)}
              \cup {ClassificationRow(curveID, transitIndex, userID, input, t)}]

\* A DELETE whose WHERE clause forgets the user.
DeleteCurveClassifications_OfAllUsers(Cl, curveID, userID) ==
    [Classifications |-> {r \in Cl : r.curve_id # curveID},
     deleted |-> Cardinality({r \in Cl : r.curve_id = curveID})]

\* models.DeleteCurveClassifications: the rows left, and RowsAffected.
DeleteCurveClassifications(Cl, curveID, userID) ==
    [Classifications |-> {r \in Cl : ~(r.curve_id = curveID /\ r.user_id = userID)},
     deleted |-> Cardinality({r \in Cl : r.curve_id = curveID /\ r.user_id = userID})]

\* SELECT COUNT(DISTINCT transit_index) FROM Classifications WHERE
\* curve_id = c.id AND user_id = ?
ClassifiedCount(Cl, curveID, userID) ==
    Cardinality({r.transit_index : r \in {x \in Cl : x.curve_id = curveID
                                                    /\ x.user_id = userID}})

\* The WHERE clause of the curves_completed query of models.GetUserStats.
CurveCompleted(Cl, c, userID) ==
    /\ c.found_transits > 0
    /\ c.found_transits <= ClassifiedCount(Cl, c.id, userID)

\* models.GetUserStats
GetUserStats(C, Cl, userID) ==
    [total_classified |-> Cardinality({r \in Cl : r.user_id = userID}),
     curves_completed |-> Cardinality({c \in C : CurveCompleted(Cl, c, userID)})]

\* models.GetCurvesWithProgress
GetCurvesWithProgress(C, Cl, userID) ==
    {[curve |-> c, classified_count |-> ClassifiedCount(Cl, c.id, userID)] : c \in C}

\* models.GetUserClassificationsForExport: Classifications JOIN Curves.
GetUserClassificationsForExport(C, Cl, userID) ==
    {[curve_name |-> CurveByID(C, r.curve_id)[1].filename, row |-> r] :
        r \in {x \in Cl : x.user_id = userID /\ CurveByID(C, x.curve_id) # NULL}}

(***************************************************************************)
(* The handlers: the response each writes, and the tables it leaves.       *)
(* ctx is what AuthRequired stored in the gin.Context; URL parameters are  *)
(* text.  strconv.ParseInt(s, 10, 64) agrees with Atoi on the texts used.  *)
(***************************************************************************)
handlers_GetMe(U, ctx) ==
    IF GetUserByID(U, ctx.user_id) = NULL
    THEN Reply("GetMe", 500, "Failed to get user", NULL)
    ELSE Reply("GetMe", 200, "", UserJSON(GetUserByID(U, ctx.user_id)[1]))

handlers_Logout == Reply("Logout", 200, "", "Logged out")

handlers_GetCurves(C, Cl, ctx) ==
    Reply("GetCurves", 200, "", GetCurvesWithProgress(C, Cl, ctx.user_id))

handlers_GetCurve(C, idStr) ==
    IF ~Atoi(idStr).ok THEN Reply("GetCurve", 400, "Invalid curve ID", NULL)
    ELSE IF CurveByID(C, Atoi(idStr).val) = NULL
    THEN Reply("GetCurve", 404, "Curve not found", NULL)
    ELSE Reply("GetCurve", 200, "", CurveByID(C, Atoi(idStr).val)[1])

handlers_GetCurveTransits(C, T, idStr) ==
    IF ~Atoi(idStr).ok THEN Reply("GetCurveTransits", 400, "Invalid curve ID", NULL)
    ELSE IF CurveByID(C, Atoi(idStr).val) = NULL
    THEN Reply("GetCurveTransits", 404, "Curve not found", NULL)
    ELSE Reply("GetCurveTransits", 200, "",
               GetTransitsForFile(C, T, CurveByID(C, Atoi(idStr).val)[1].filename))

handlers_GetTransitsByFile(C, T, file) ==
    IF GetTransitsForFile(C, T, file) = {}
    THEN Reply("GetTransitsByFile", 404, "No transits found for file", NULL)
    ELSE Reply("GetTransitsByFile", 200, "", GetTransitsForFile(C, T, file))

handlers_GetTransit(C, T, file, indexStr) ==
    IF ~Atoi(indexStr).ok
    THEN Reply("GetTransit", 400, "Invalid transit index", NULL)
    ELSE IF GetTransit(C, T, file, Atoi(indexStr).val) = NULL
    THEN Reply("GetTransit", 404, "Transit not found", NULL)
    ELSE Reply("GetTransit", 200, "", GetTransit(C, T, file, Atoi(indexStr).val)[1])

\* handlers.GetClassification: "dbIndex := index - 1".
handlers_GetClassification(C, Cl, ctx, file, indexStr) ==
    IF ~Atoi(indexStr).ok
    THEN Reply("GetClassification", 400, "Invalid transit index", NULL)
    ELSE IF CurveByFilename(C, file) = NULL
    THEN Reply("GetClassification", 404, "Curve not found", NULL)
    ELSE Reply("GetClassification", 200, "",
               GetClassification(Cl, CurveByFilename(C, file)[1].id,
                                 Atoi(indexStr).val - 1, ctx.user_id))

\* Timing values the client sent are kept.
WithTransitTiming_ClientFirst(input, transit) ==
    IF transit = NULL \/ input.t_expected_bjd # NULL THEN input
    ELSE [input EXCEPT !.t_expected_bjd = Ptr(transit[1].t0_expected),
                       !.t_observed_bjd = transit[1].t0_fitted,
                       !.ttv_minutes = transit[1].ttv_minutes]

\* The input handlers.SaveClassification hands to the model: the timing
\* members are replaced by those of models.GetTransit(filename, index)
\* when that transit exists.
WithTransitTiming(input, transit) ==
    IF transit = NULL THEN input
    ELSE [input EXCEPT !.t_expected_bjd = Ptr(transit[1].t0_expected),
                       !.t_observed_bjd = transit[1].t0_fitted,
                       !.ttv_minutes = transit[1].ttv_minutes]

SaveBound(U, C, T, Cl, ctx, file, index, input, t) ==
    LET r == SaveClassification(Cl, U, C, CurveByFilename(C, file)[1].id,
                 index - 1, ctx.user_id,
                 WithTransitTiming(input, GetTransit(C, T, file, index)), t)
    IN IF r.err # ""
       THEN [resp |-> Reply("SaveClassification", 500,
                            "Failed to save classification", NULL),
             Classifications |-> Cl]
       ELSE [resp |-> Reply("SaveClassification", 200, "", "Classification saved"),
             Classifications |-> r.Classifications]

\* handlers.SaveClassification
handlers_SaveClassification(U, C, T, Cl, ctx, file, indexStr, body, t) ==
    IF ~Atoi(indexStr).ok
    THEN [resp |-> Reply("SaveClassification", 400, "Invalid transit index", NULL),
          Classifications |-> Cl]
    ELSE IF ShouldBindJSON(body).err # ""
    THEN [resp |-> Reply("SaveClassification", 400, "Invalid request body", NULL),
          Classifications |-> Cl]
    ELSE IF CurveByFilename(C, file) = NULL
    THEN [resp |-> Reply("SaveClassification", 404, "Curve not found", NULL),
          Classifications |-> Cl]
    ELSE SaveBound(U, C, T, Cl, ctx, file, Atoi(indexStr).val,
                   ShouldBindJSON(body).input[1], t)

\* handlers.DeleteCurveClassifications
handlers_DeleteCurveClassifications(Cl, ctx, idStr) ==
    IF ~Atoi(idStr).ok
    THEN [resp |-> Reply("DeleteCurveClassifications", 400, "Invalid curve ID", NULL),
          Classifications |-> Cl]
    ELSE LET r == DeleteCurveClassifications(Cl, Atoi(idStr).val, ctx.user_id)
         IN [resp |-> Reply("DeleteCurveClassifications", 200, "",
                            [deleted |-> r.deleted]),
             Classifications |-> r.Classifications]

handlers_GetStats(C, Cl, ctx) ==
    Reply("GetStats", 200, "", GetUserStats(C, Cl, ctx.user_id))

(***************************************************************************)
(* The admin handlers.  models.ListUsers, CreateUser, UpdateUser and       *)
(* DeleteUser are called by handlers/admin.go; they act on table Users     *)
(* under its constraints (username UNIQUE, id AUTOINCREMENT, the foreign   *)
(* key Classifications.user_id).                                           *)
(***************************************************************************)
ListUsers(U) == {UserJSON(u) : u \in U}

CreateUser(U, seq, username, password, fullname, admin) ==
    IF GetUserByUsername(U, username) # NULL
    THEN [err |-> "UNIQUE constraint failed", Users |-> U, seq |-> seq, user |-> NULL]
    ELSE [err |-> "",
          Users |-> U \cup {UserRow(seq + 1, username, password, fullname, admin)},
          seq |-> seq + 1,
          user |-> Ptr(UserJSON(UserRow(seq + 1, username, password, fullname, admin)))]

UpdateUser(U, id, fullname, admin) ==
    {IF u.id = id THEN [u EXCEPT !.fullname = fullname, !.is_admin = admin]
     ELSE u : u \in U}

\* The outcomes of models.DeleteUser: the row is deleted; when rows of
\* Classifications refer to the user, either they are deleted with it or
\* the foreign key makes the DELETE fail.
DeleteUser(U, Cl, id) ==
    {[err |-> "", Users |-> {u \in U : u.id # id},
      Classifications |-> {r \in Cl : r.user_id # id}]}
    \cup (IF \E r \in Cl : r.user_id = id
          THEN {[err |-> "FOREIGN KEY constraint failed", Users |-> U,
                 Classifications |-> Cl]}
          ELSE {})

RECURSIVE SumFoundTransits(_)
SumFoundTransits(C) ==
    IF C = {} THEN 0
    ELSE LET c == CHOOSE c \in C : TRUE
         IN c.found_transits + SumFoundTransits(C \ {c})

\* models.GetDetailedUserStats: the counters of curves and classifications
\* (the per-flag sums follow the pattern of classified_transits).  SUM over
\* no rows is NULL, which Scan cannot store in an int.
GetDetailedUserStats(C, Cl, userID) ==
    IF {c \in C : c.found_transits > 0} = {} \/ {r \in Cl : r.user_id = userID} = {}
    THEN [err |-> "converting NULL to int is unsupported", stats |-> NULL]
    ELSE [err |-> "",
          stats |-> Ptr(
            [total_curves |-> Cardinality({c \in C : c.found_transits > 0}),
             total_transits |-> SumFoundTransits({c \in C : c.found_transits > 0}),
             classified_transits |-> Cardinality({r \in Cl : r.user_id = userID}),
             with_notes |-> Cardinality({r \in Cl : r.user_id = userID /\ r.notes # ""}),
             curves_with_progress |->
                 Cardinality({r.curve_id : r \in {x \in Cl : x.user_id = userID}}),
             curves_completed |->
                 Cardinality({c \in C : CurveCompleted(Cl, c, userID)})])]

handlers_ListUsers(U) == Reply("ListUsers", 200, "", ListUsers(U))

\* handlers.CreateUser on the JSON body [username, password, fullname,
\* is_admin]; the first three are binding:"required".
handlers_CreateUser(U, seq, body) ==
    IF body.username = "" \/ body.password = "" \/ body.fullname = ""
    THEN [resp |-> Reply("CreateUser", 400, "required", NULL),
          Users |-> U, seq |-> seq]
    ELSE LET r == CreateUser(U, seq, body.username, body.password,
                             body.fullname, body.is_admin)
         IN IF r.err # ""
            THEN [resp |-> Reply("CreateUser", 500, "Failed to create user", NULL),
                  Users |-> U, seq |-> seq]
            ELSE [resp |-> Reply("CreateUser", 201, "", r.user[1]),
                  Users |-> r.Users, seq |-> r.seq]

\* handlers.UpdateUser on the JSON body [fullname, is_admin].
handlers_UpdateUser(U, idStr, body) ==
    IF ~Atoi(idStr).ok
    THEN [resp |-> Reply("UpdateUser", 400, "Invalid user ID", NULL), Users |-> U]
    ELSE IF body.fullname = ""
    THEN [resp |-> Reply("UpdateUser", 400, "required", NULL), Users |-> U]
    ELSE [resp |-> Reply("UpdateUser", 200, "", "User updated"),
          Users |-> UpdateUser(U, Atoi(idStr).val, body.fullname, body.is_admin)]

\* handlers.DeleteUser: one outcome per outcome of models.DeleteUser.
handlers_DeleteUser(U, Cl, idStr) ==
    IF ~Atoi(idStr).ok
    THEN {[resp |-> Reply("DeleteUser", 400, "Invalid user ID", NULL),
           Users |-> U, Classifications |-> Cl]}
    ELSE {IF r.err # ""
          THEN [resp |-> Reply("DeleteUser", 500, "Failed to delete user", NULL),
                Users |-> U, Classifications |-> Cl]
          ELSE [resp |-> Reply("DeleteUser", 200, "", "User deleted"),
                Users |-> r.Users, Classifications |-> r.Classifications]
          : r \in DeleteUser(U, Cl, Atoi(idStr).val)}

\* handlers.GetUserStats (admin)
handlers_GetUserStats(C, Cl, idStr) ==
    IF ~Atoi(idStr).ok
    THEN Reply("GetUserStats", 400, "Invalid user ID", NULL)
    ELSE IF GetDetailedUserStats(C, Cl, Atoi(idStr).val).err # ""
    THEN Reply("GetUserStats", 500, "Failed to get user stats", NULL)
    ELSE Reply("GetUserStats", 200, "",
               GetDetailedUserStats(C, Cl, Atoi(idStr).val).stats[1])

\* handlers.ExportUserClassifications: the CSV download, as its rows.
handlers_ExportUserClassifications(U, C, Cl, idStr) ==
    IF ~Atoi(idStr).ok
    THEN Reply("ExportUserClassifications", 400, "Invalid user ID", NULL)
    ELSE IF GetUserByID(U, Atoi(idStr).val) = NULL
    THEN Reply("ExportUserClassifications", 404, "User not found", NULL)
    ELSE Reply("ExportUserClassifications", 200, "",
               GetUserClassificationsForExport(C, Cl, Atoi(idStr).val))

(***************************************************************************)
(* The routes of main.go.  One action serves one request: the middleware   *)
(* chain of the route, then its handler unless the chain aborted.          *)
(***************************************************************************)
MaxTokens == 1           \* JWTs clients hold at one time
MaxClassifications == 2  \* rows of table Classifications
MaxUserID == 3           \* ids table Users hands out
MaxTime == 1             \* ticks of the clock

Req(route, header, file, index, id, body) ==
    [route |-> route, header |-> header, file |-> file, index |-> index,
     id |-> id, body |-> body, at |-> now]

Served(req, resp) == lastReq' = req /\ lastResp' = resp

\* r.POST("/api/auth/login", handlers.Login): outside group /api.
POST_auth_login(body) ==
    /\ \E r \in {Login(Users, body, now)} :
       /\ r.status = 200 =>
             r.body.token \in issued \/ Cardinality(issued) < MaxTokens
       /\ Served(Req("Login", <<>>, <<>>, <<>>, <<>>, Ptr(body)), r)
       /\ issued' = IF r.status = 200 THEN issued \cup {r.body.token} ELSE issued
    /\ UNCHANGED <<now, dbVars, csvVars, feVars, plotVars>>

\* A route whose handler only reads.
ReadRoute(route, req, header, resp) ==
    /\ \E m \in {Middleware(route, header, now)} :
          Served(req, IF m.status # 200 THEN Aborted(m) ELSE resp)
    /\ UNCHANGED <<now, dbVars, csvVars, issued, feVars, plotVars>>

GET_auth_me(header) ==
    ReadRoute("GetMe", Req("GetMe", header, <<>>, <<>>, <<>>, NULL), header,
              handlers_GetMe(Users, Middleware("GetMe", header, now).ctx))

\* A logout that ends the session on the server by deleting the account.
POST_auth_logout_DeletingAccount(header) ==
    /\ \E m \in {Middleware("Logout", header, now)} :
          /\ Served(Req("Logout", header, <<>>, <<>>, <<>>, NULL),
                    IF m.status # 200 THEN Aborted(m) ELSE handlers_Logout)
          /\ Users' = IF m.status = 200
                      THEN {u \in Users : u.id # m.ctx.user_id} ELSE Users
    /\ UNCHANGED <<now, userSeq, Curves, Transits, transitSeq, Classifications,
                   csvVars, issued, feVars, plotVars>>

POST_auth_logout(header) ==
    ReadRoute("Logout", Req("Logout", header, <<>>, <<>>, <<>>, NULL), header,
              handlers_Logout)

GET_curves(header) ==
    ReadRoute("GetCurves", Req("GetCurves", header, <<>>, <<>>, <<>>, NULL), header,
              handlers_GetCurves(Curves, Classifications,
                                 Middleware("GetCurves", header, now).ctx))

GET_curve(header, id) ==
    ReadRoute("GetCurve", Req("GetCurve", header, <<>>, <<>>, id, NULL), header,
              handlers_GetCurve(Curves, id))

GET_curve_transits(header, id) ==
    ReadRoute("GetCurveTransits",
              Req("GetCurveTransits", header, <<>>, <<>>, id, NULL), header,
              handlers_GetCurveTransits(Curves, Transits, id))

GET_transits(header, file) ==
    ReadRoute("GetTransitsByFile",
              Req("GetTransitsByFile", header, file, <<>>, <<>>, NULL), header,
              handlers_GetTransitsByFile(Curves, Transits, file))

GET_transit(header, file, index) ==
    ReadRoute("GetTransit", Req("GetTransit", header, file, index, <<>>, NULL),
              header, handlers_GetTransit(Curves, Transits, file, index))

GET_classify(header, file, index) ==
    ReadRoute("GetClassification",
              Req("GetClassification", header, file, index, <<>>, NULL), header,
              handlers_GetClassification(Curves, Classifications,
                  Middleware("GetClassification", header, now).ctx, file, index))

GET_stats(header) ==
    ReadRoute("GetStats", Req("GetStats", header, <<>>, <<>>, <<>>, NULL), header,
              handlers_GetStats(Curves, Classifications,
                                Middleware("GetStats", header, now).ctx))

POST_classify(header, file, index, body) ==
    /\ \E m \in {Middleware("SaveClassification", header, now)} :
       IF m.status # 200
       THEN /\ Served(Req("SaveClassification", header, file, index, <<>>, body),
                      Aborted(m))
            /\ UNCHANGED Classifications
       ELSE \E r \in {handlers_SaveClassification(Users, Curves, Transits,
                          Classifications, m.ctx, file, index, body, now)} :
            /\ Cardinality(r.Classifications) <= MaxClassifications
            /\ Served(Req("SaveClassification", header, file, index, <<>>, body),
                      r.resp)
            /\ Classifications' = r.Classifications
    /\ UNCHANGED <<now, Users, userSeq, Curves, Transits, transitSeq, csvVars,
                   issued, feVars, plotVars>>

DELETE_classifications(header, id) ==
    /\ \E m \in {Middleware("DeleteCurveClassifications", header, now)} :
       IF m.status # 200
       THEN /\ Served(Req("DeleteCurveClassifications", header, <<>>, <<>>, id, NULL),
                      Aborted(m))
            /\ UNCHANGED Classifications
       ELSE \E r \in {handlers_DeleteCurveClassifications(Classifications,
                                                          m.ctx, id)} :
            /\ Served(Req("DeleteCurveClassifications", header, <<>>, <<>>, id, NULL),
                      r.resp)
            /\ Classifications' = r.Classifications
    /\ UNCHANGED <<now, Users, userSeq, Curves, Transits, transitSeq, csvVars,
                   issued, feVars, plotVars>>

GET_admin_users(header) ==
    ReadRoute("ListUsers", Req("ListUsers", header, <<>>, <<>>, <<>>, NULL), header,
              handlers_ListUsers(Users))

GET_admin_user_stats(header, id) ==
    ReadRoute("GetUserStats", Req("GetUserStats", header, <<>>, <<>>, id, NULL),
              header, handlers_GetUserStats(Curves, Classifications, id))

GET_admin_user_export(header, id) ==
    ReadRoute("ExportUserClassifications",
              Req("ExportUserClassifications", header, <<>>, <<>>, id, NULL), header,
              handlers_ExportUserClassifications(Users, Curves, Classifications, id))

POST_admin_users(header, body) ==
    /\ \E m \in {Middleware("CreateUser", header, now)} :
       IF m.status # 200
       THEN /\ Served(Req("CreateUser", header, <<>>, <<>>, <<>>, Ptr(body)),
                      Aborted(m))
            /\ UNCHANGED <<Users, userSeq>>
       ELSE \E r \in {handlers_CreateUser(Users, userSeq, body)} :
            /\ r.seq <= MaxUserID
            /\ Served(Req("CreateUser", header, <<>>, <<>>, <<>>, Ptr(body)), r.resp)
            /\ Users' = r.Users
            /\ userSeq' = r.seq
    /\ UNCHANGED <<now, Curves, Transits, transitSeq, Classifications, csvVars,
                   issued, feVars, plotVars>>

PUT_admin_user(header, id, body) ==
    /\ \E m \in {Middleware("UpdateUser", header, now)} :
       IF m.status # 200
       THEN /\ Served(Req("UpdateUser", header, <<>>, <<>>, id, Ptr(body)), Aborted(m))
            /\ UNCHANGED Users
       ELSE \E r \in {handlers_UpdateUser(Users, id, body)} :
            /\ Served(Req("UpdateUser", header, <<>>, <<>>, id, Ptr(body)), r.resp)
            /\ Users' = r.Users
    /\ UNCHANGED <<now, userSeq, Curves, Transits, transitSeq, Classifications,
                   csvVars, issued, feVars, plotVars>>

DELETE_admin_user(header, id) ==
    /\ \E m \in {Middleware("DeleteUser", header, now)} :
       IF m.status # 200
       THEN /\ Served(Req("DeleteUser", header, <<>>, <<>>, id, NULL), Aborted(m))
            /\ UNCHANGED <<Users, Classifications>>
       ELSE \E r \in handlers_DeleteUser(Users, Classifications, id) :
            /\ Served(Req("DeleteUser", header, <<>>, <<>>, id, NULL), r.resp)
            /\ Users' = r.Users
            /\ Classifications' = r.Classifications
    /\ UNCHANGED <<now, userSeq, Curves, Transits, transitSeq, csvVars, issued,
                   feVars, plotVars>>

\* A client drops a token it holds, as stores/auth.js logout() does; the
\* server is not told.
ClientForgets(tok) ==
    /\ tok \in issued
    /\ issued' = issued \ {tok}
    /\ UNCHANGED <<now, dbVars, csvVars, lastReq, lastResp, feVars, plotVars>>

\* time.Now() moves on.
Tick ==
    /\ now < MaxTime
    /\ now' = now + 1
    /\ UNCHANGED <<dbVars, csvVars, httpVars, feVars, plotVars>>

(***************************************************************************)
(* The server after startup: two users, and the tables the loaders built   *)
(* from the plotter's output for light curves a (transits 0 and 1) and b   *)
(* (transit 0).                                                            *)
(***************************************************************************)
Ann == UserRow(1, "ann", "pa", "Ann", TRUE)
Bob == UserRow(2, "bob", "pb", "Bob", FALSE)

FixtureCurvesCsv ==
    CsvFile(<<HeaderRecord(14), CurveRecord(FA, "full"), CurveRecord(FB, "full")>>)
FixtureTransitsCsv ==
    CsvFile(<<HeaderRecord(14),
              TransitRecord(FA, <<"0">>, "1", "full"),
              TransitRecord(FA, <<"1">>, "2", "full"),
              TransitRecord(FB, <<"0">>, "4", "unfitted")>>)

FixtureCurves == LoadCurvesFromCSV({}, FixtureCurvesCsv).Curves
FixtureLoad == LoadTransitsFromCSV(FixtureCurves, {}, 0, FixtureTransitsCsv)

Init ==
    /\ now = 0
    /\ Users = {Ann, Bob} /\ userSeq = 2
    /\ Curves = FixtureLoad.Curves
    /\ Transits = FixtureLoad.Transits
    /\ transitSeq = FixtureLoad.seq
    /\ Classifications = {}
    /\ curvesCsv = FixtureCurvesCsv /\ transitsCsv = FixtureTransitsCsv
    /\ loads = 0
    /\ InitHttp /\ InitFrontend /\ InitPlotter

\* The Authorization header api/client.js sends for a token.
Bearer(tok) == <<Word("Bearer"), SP, tok>>

\* The state of the ClassificationForm with the flags S ticked, which is
\* the JSON body api.saveClassification posts.
FormBody(S, notes) ==
    [f \in FormFlags \cup {"notes"} |-> IF f = "notes" THEN notes ELSE f \in S]

\* A body another API client may post: it names the timing members too.
ApiBody(S, notes) ==
    [f \in FormFlags \cup {"notes", "t_expected_bjd", "t_observed_bjd", "ttv_minutes"} |->
        IF f = "notes" THEN notes
        ELSE IF f = "t_expected_bjd" THEN Ptr(990)
        ELSE IF f = "t_observed_bjd" THEN Ptr(995)
        ELSE IF f = "ttv_minutes" THEN NULL
        ELSE f \in S]

Credentials == {[username |-> "ann", password |-> "pa"],
                [username |-> "bob", password |-> "pb"]}

\* The transits a client may name: those of the fixture, index 2 that no
\* light curve has, a light curve that is not loaded, an index that is no
\* number.
UrlTransits ==
    ({FA, FB} \X {<<"0">>, <<"1">>, <<"2">>}) \cup {<<FZ, <<"0">>>>, <<FA, <<"x">>>>}
UrlCurveIDs == {<<"1">>, <<"2">>, <<"x">>}
FormBodies == {Ptr(FormBody({"bad_model_fit", "left_asymmetry"}, "n"))}
Bodies == FormBodies \cup {NULL, Ptr(ApiBody({"marked_tdv"}, ""))}

\* Requests of logged-in clients: group /api below the admin group.
Next ==
    \/ \E body \in Credentials : POST_auth_login(body)
    \/ \E tok \in issued, t \in UrlTransits, body \in Bodies :
          POST_classify(Bearer(tok), t[1], t[2], body)
    \/ \E tok \in issued, t \in UrlTransits :
          GET_classify(Bearer(tok), t[1], t[2])
    \/ \E tok \in issued, id \in UrlCurveIDs :
          DELETE_classifications(Bearer(tok), id)
    \/ \E tok \in issued : GET_stats(Bearer(tok))
    \/ \E tok \in issued : GET_curves(Bearer(tok))
    \/ \E tok \in issued : ClientForgets(tok)

Spec == Init /\ [][Next]_vars

(***************************************************************************)
(* Requests of any client: every route of main.go, under every shape of    *)
(* Authorization header, while the clock runs and the admin edits table    *)
(* Users.                                                                  *)
(***************************************************************************)
\* The claims of a token with is_admin set, signed with another key.
Forged(tok) == [tok EXCEPT !.sig = "other", !.is_admin = TRUE]

\* What a client can make of a token: the header of api/client.js, the
\* token without a scheme, another spelling of the scheme, a forgery.
HeadersOf(tok) ==
    {Bearer(tok), <<tok>>, <<Word("bearer"), SP, tok>>, Bearer(Forged(tok))}

AuthHeaders(I) == {<<>>} \cup UNION {HeadersOf(tok) : tok \in I}

LoginBodies ==
    Credentials \cup {[username |-> "ann", password |-> "pb"],
                      [username |-> "", password |-> "pa"]}

NewUsers == {[username |-> "cy", password |-> "pc", fullname |-> "Cy",
              is_admin |-> FALSE]}
UserUpdates == {[fullname |-> "Bob", is_admin |-> TRUE]}

NextAuth ==
    \/ Tick
    \/ \E tok \in issued : ClientForgets(tok)
    \/ \E body \in LoginBodies : POST_auth_login(body)
    \/ \E h \in AuthHeaders(issued) : GET_auth_me(h)
    \/ \E h \in AuthHeaders(issued) : POST_auth_logout(h)
    \/ \E h \in AuthHeaders(issued) : GET_curves(h)
    \/ \E h \in AuthHeaders(issued) : GET_curve(h, <<"1">>)
    \/ \E h \in AuthHeaders(issued) : GET_curve_transits(h, <<"1">>)
    \/ \E h \in AuthHeaders(issued) : GET_transits(h, FA)
    \/ \E h \in AuthHeaders(issued) : GET_transit(h, FA, <<"0">>)
    \/ \E h \in AuthHeaders(issued) : GET_classify(h, FA, <<"1">>)
    \/ \E h \in AuthHeaders(issued), body \in FormBodies :
          POST_classify(h, FA, <<"1">>, body)
    \/ \E h \in AuthHeaders(issued) : DELETE_classifications(h, <<"1">>)
    \/ \E h \in AuthHeaders(issued) : GET_stats(h)
    \/ \E h \in AuthHeaders(issued) : GET_admin_users(h)
    \/ \E h \in AuthHeaders(issued), body \in NewUsers : POST_admin_users(h, body)
    \/ \E h \in AuthHeaders(issued), body \in UserUpdates :
          PUT_admin_user(h, <<"2">>, body)
    \/ \E h \in AuthHeaders(issued) : DELETE_admin_user(h, <<"2">>)
    \/ \E h \in AuthHeaders(issued) : GET_admin_user_stats(h, <<"2">>)
    \/ \E h \in AuthHeaders(issued) : GET_admin_user_export(h, <<"2">>)

SpecAuth == Init /\ [][NextAuth]_vars

(***************************************************************************)
(* Properties of the loaders, checked under SpecLoad.                      *)
(***************************************************************************)
\* The data records of a loaded file that have the fields the loaders need.
DataRecords(file) ==
    IF ~file.exists THEN {}
    ELSE {file.records[k] : k \in {j \in 2..Len(file.records) :
                                      Len(file.records[j]) >= 14}}

TransitsJustLoaded ==
    lastResp.handler = "LoadTransitsFromCSV" /\ lastResp.error = ""

\* The text is the decimal numeral of i.
NumeralOf(text, i) == Atoi(text).ok /\ Atoi(text).val = i

\* The row holds the values of the record, field by field.
RowOfRecord(t, rec) == TransitOfRecord(rec, t.curve_id, t.id) = t

\* C4: after LoadTransitsFromCSV on any CSV, Transits holds at most one row
\* per (curve, transit_index), and GetTransit(filename, index) returns the
\* field values of a CSV record that has exactly that filename and index.
C4_KeyedByFilenameAndIndex ==
    TransitsJustLoaded =>
       /\ \A t1, t2 \in Transits :
             (t1.curve_id = t2.curve_id /\ t1.transit_index = t2.transit_index)
                => t1 = t2
       /\ \A c \in Curves, i \in 0..2 :
             GetTransit(Curves, Transits, c.filename, i) # NULL =>
                \E rec \in DataRecords(transitsCsv) :
                   /\ rec[1] = c.filename
                   /\ NumeralOf(rec[2], i)
                   /\ RowOfRecord(GetTransit(Curves, Transits, c.filename, i)[1], rec)

\* A nullable column (stored through a *float64) and a plain column
\* (stored through a float64 or an int, which cannot be absent) keep what
\* the text of the field says.
NullableLossless(text, col) ==
    IF text = <<>> THEN col = NULL ELSE col = Ptr(ParseFloat(text).val)
PlainLossless(text, n) == text # <<>> /\ n = ParseFloat(text).val

RecordLossless(t, rec) ==
    /\ rec[2] # <<>> /\ NumeralOf(rec[2], t.transit_index)
    /\ PlainLossless(rec[3], t.t0_expected)
    /\ NullableLossless(rec[4], t.t0_fitted)
    /\ NullableLossless(rec[5], t.ttv_minutes)
    /\ PlainLossless(rec[6], t.rp_fitted)
    /\ PlainLossless(rec[7], t.a_fitted)
    /\ NullableLossless(rec[8], t.rms_residuals)
    /\ PlainLossless(rec[9], t.period)
    /\ NullableLossless(rec[10], t.duration)
    /\ PlainLossless(rec[11], t.inc)
    /\ PlainLossless(rec[12], t.u1)
    /\ PlainLossless(rec[13], t.u2)

\* C5: for every row LoadTransitsFromCSV loads, an empty numeric field of
\* the record is stored as null and a number is stored as that number, in
\* each numeric column.
C5_LosslessForAbsentValues ==
    TransitsJustLoaded =>
       \A t \in Transits :
          \A rec \in DataRecords(transitsCsv) :
             RowOfRecord(t, rec) => RecordLossless(t, rec)

\* C6: after a load, every stored field of a curve row equals the column
\* of its record of curves.csv, the transit count (column found_transits)
\* included: the backend computes none of them.
C6_NothingRederived ==
    (lastResp.handler \in {"LoadCurvesFromCSV", "LoadTransitsFromCSV"}
       /\ lastResp.error = "") =>
       \A c \in Curves :
          \A rec \in DataRecords(curvesCsv) :
             rec[1] = c.filename =>
                /\ c.found_transits = IntOrZero(rec[5])
                /\ c.num_expected_transits = IntOrNull(rec[4])
                /\ c.period_days = FloatOrNull(rec[7])

(***************************************************************************)
(* Properties of the middleware, checked under SpecAuth.                   *)
(***************************************************************************)
\* The request carries "Bearer <token>", the token signed with the server
\* secret and not expired when the request is served.
WellAuthorized(req) ==
    /\ Len(req.header) = 3
    /\ req.header[1] = Word("Bearer") /\ req.header[2] = SP
    /\ req.header[3].kind = "jwt"
    /\ req.header[3].sig = "jwtSecret"
    /\ req.at < req.header[3].exp

\* A step that serves a request of group /api (the clock and the tokens
\* held do not change in such a step).
ServesApi == lastReq'.route \in ApiRoutes /\ now' = now /\ issued' = issued

\* C1: a route under /api other than login runs its handler only for a
\* header "Bearer <token>" with a valid, unexpired token; otherwise the
\* response is 401, no handler runs, the response carries no data and the
\* tables are unchanged.
C1_AuthRequired ==
    [][ServesApi =>
         IF WellAuthorized(lastReq')
         THEN /\ lastResp'.status # 401
              /\ lastReq'.route \notin AdminRoutes =>
                    lastResp'.handler = lastReq'.route
         ELSE /\ lastResp'.status = 401
              /\ lastResp'.handler = "none"
              /\ lastResp'.body = NULL
              /\ UNCHANGED dbVars]_vars

\* A genuine token, expired, is turned away from the save route while the
\* table holds a classification.
C1_Witness ==
    /\ lastReq.route = "SaveClassification"
    /\ lastResp.status = 401 /\ lastResp.error = "Invalid token"
    /\ Len(lastReq.header) = 3
    /\ lastReq.header[3].kind = "jwt" /\ lastReq.header[3].sig = "jwtSecret"
    /\ lastReq.header[3].exp <= lastReq.at
    /\ Classifications # {}

\* C2: a route under /api/admin runs its handler only when the
\* authenticated request's is_admin is true; an authenticated non-admin
\* request gets 403 "Admin access required", no handler runs, and Users
\* and Classifications are unchanged.
C2_AdminRequired ==
    [][(ServesApi /\ lastReq'.route \in AdminRoutes /\ WellAuthorized(lastReq')) =>
         IF lastReq'.header[3].is_admin
         THEN lastResp'.handler = lastReq'.route
         ELSE /\ lastResp'.status = 403
              /\ lastResp'.error = "Admin access required"
              /\ lastResp'.handler = "none"
              /\ UNCHANGED <<Users, userSeq, Classifications>>]_vars

\* Bob, logged in and no admin, asks to delete a user and gets 403.
C2_Witness ==
    /\ lastReq.route = "DeleteUser"
    /\ WellAuthorized(lastReq)
    /\ ~lastReq.header[3].is_admin
    /\ lastResp.status = 403
    /\ Bob \in Users

(***************************************************************************)
(* Properties of the classification routes, checked under Spec.            *)
(***************************************************************************)
\* The user a served request was authenticated as.
CallerOf(req) == req.header[3].user_id

SavedOK == lastReq.route = "SaveClassification" /\ lastResp.status = 200

\* C3: when transit (f, i) exists, the row SaveClassification writes for
\* the URL (f, i) carries the transit_index of that transit, the one whose
\* t0_expected, t0_fitted and ttv_minutes it holds, so that the join on
\* (curve_id, transit_index) pairs the classification with its transit.
C3_RowCarriesTransitIndex ==
    (SavedOK /\ GetTransit(Curves, Transits, lastReq.file,
                           Atoi(lastReq.index).val) # NULL) =>
       \E t \in {GetTransit(Curves, Transits, lastReq.file,
                            Atoi(lastReq.index).val)[1]} :
          \E r \in Classifications :
             /\ r.user_id = CallerOf(lastReq)
             /\ r.curve_id = t.curve_id
             /\ r.transit_index = t.transit_index
             /\ r.t_expected_bjd = Ptr(t.t0_expected)
             /\ r.t_observed_bjd = t.t0_fitted
             /\ r.ttv_minutes = t.ttv_minutes

\* ClassificationForm.loadClassification: the form state made of the data
\* api.getClassification resolved to (null when nothing is stored).
loadClassification(data) ==
    IF data = NULL THEN FormBody({}, "")
    ELSE [f \in FormFlags \cup {"notes"} |->
             IF f = "notes" THEN Field(data[1], "notes", "")
             ELSE Field(data[1], f, FALSE)]

\* C7: after user u saved (file, i) from the ClassificationForm, a
\* GetClassification by u for the same (file, i) gives the form exactly
\* the flags and the notes that were saved, for every flag of the form.
C7_SaveReadRoundTrip ==
    (SavedOK /\ lastReq.body \in FormBodies) =>
       loadClassification(
           handlers_GetClassification(Curves, Classifications,
               [user_id |-> CallerOf(lastReq)], lastReq.file, lastReq.index).body)
       = lastReq.body[1]

\* C8: DELETE /api/curves/:id/classifications leaves the caller without a
\* classification for the curve, leaves every row of another user or
\* another curve as it was, adds none, and answers the number of rows it
\* removed.
C8_DeleteOnlyCallersRows ==
    [][(lastReq'.route = "DeleteCurveClassifications" /\ lastResp'.status = 200
          /\ issued' = issued) =>
         /\ \A r \in Classifications' :
               ~(r.user_id = CallerOf(lastReq')
                   /\ r.curve_id = Atoi(lastReq'.id).val)
         /\ \A r \in Classifications :
               (r.user_id # CallerOf(lastReq')
                  \/ r.curve_id # Atoi(lastReq'.id).val) => r \in Classifications'
         /\ Classifications' \subseteq Classifications
         /\ lastResp'.body.deleted =
               Cardinality(Classifications) - Cardinality(Classifications')]_vars

\* A delete removed a row of the caller and left the row another user
\* made for the same curve.
C8_Witness ==
    /\ lastReq.route = "DeleteCurveClassifications"
    /\ lastResp.status = 200
    /\ lastResp.body.deleted > 0
    /\ \E r \in Classifications :
          r.curve_id = Atoi(lastReq.id).val /\ r.user_id # CallerOf(lastReq)

\* C9: if curves_completed counts curve c for user u, every transit row of
\* c has a classification by u (a row at the transit's index, or at the
\* index the classify routes derive from it).
C9_CompletedMeansAllClassified ==
    \A u \in Users, c \in Curves :
       CurveCompleted(Classifications, c, u.id) =>
          \A t \in {x \in Transits : x.curve_id = c.id} :
             \E r \in Classifications :
                /\ r.user_id = u.id /\ r.curve_id = c.id
                /\ r.transit_index \in {t.transit_index, t.transit_index - 1}

(***************************************************************************)
(* The frontend: stores/auth.js, api/client.js request(), the Login form   *)
(* and the App view, against the middleware and handlers.Login.  A call   *)
(* of request() is a message in inflight: sent with the header of the      *)
(* token held then, served by the server some time later, and received by  *)
(* the rest of request() later still.                                      *)
(***************************************************************************)
MaxInflight == 2     \* calls of request() awaiting their response

\* stores/auth.js setAuth: the signals and localStorage it leaves.
setAuth(newToken, newUser, store) ==
    [token |-> newToken, user |-> newUser,
     storage |-> IF newToken # NULL /\ newUser # NULL
                 THEN [emoons_token |-> newToken, emoons_user |-> newUser]
                 ELSE [emoons_token |-> NULL, emoons_user |-> NULL]]

\* A logout that clears the signals and leaves localStorage alone.
logout_MemoryOnly(store) ==
    [token |-> NULL, user |-> NULL, storage |-> store]

\* stores/auth.js logout
logout(store) == setAuth(NULL, NULL, store)

\* computed isAuthenticated, and App: "if (!isAuthenticated.value) return
\* <Login />".
isAuthenticated == token # NULL
LoginViewShown == ~isAuthenticated

\* The headers request() builds: Authorization only when a token is held.
RequestHeader == IF token # NULL THEN Bearer(token[1]) ELSE <<>>

Send(route, body) ==
    /\ Len(inflight) < MaxInflight
    /\ inflight' = Append(inflight,
          [req |-> Req(route, RequestHeader, <<>>, <<>>, <<>>, body),
           resp |-> NULL])
    /\ UNCHANGED <<now, dbVars, csvVars, httpVars, token, user, storage, lastError,
                   viewVars, plotVars>>

\* Login.handleSubmit up to its await: the Login view is shown.
handleSubmit(body) == LoginViewShown /\ Send("Login", Ptr(body))

\* App.loadCurves and StatsPanel up to their await: the App is shown.
loadCurves == isAuthenticated /\ Send("GetCurves", NULL)
loadStats == isAuthenticated /\ Send("GetStats", NULL)

\* App.handleLogout
handleLogout ==
    /\ isAuthenticated
    /\ \E a \in {logout(storage)} :
          token' = a.token /\ user' = a.user /\ storage' = a.storage
    /\ UNCHANGED <<now, dbVars, csvVars, httpVars, inflight, lastError, viewVars, plotVars>>

\* The browser reloads the page: the signals start from loadFromStorage(),
\* the calls in flight and what the page had shown are dropped.
loadFromStorage ==
    /\ token' = storage.emoons_token
    /\ user' = storage.emoons_user
    /\ inflight' = <<>>
    /\ lastReq' = NoReq /\ lastResp' = NoResp /\ lastError' = ""
    /\ UNCHANGED <<now, dbVars, csvVars, issued, storage, viewVars, plotVars>>

\* The server's answer to a call of the frontend.
Answer(req, t) ==
    IF req.route = "Login" THEN Login(Users, req.body[1], t)
    ELSE IF Middleware(req.route, req.header, t).status # 200
    THEN Aborted(Middleware(req.route, req.header, t))
    ELSE IF req.route = "GetCurves"
    THEN handlers_GetCurves(Curves, Classifications,
                            Middleware(req.route, req.header, t).ctx)
    ELSE handlers_GetStats(Curves, Classifications,
                           Middleware(req.route, req.header, t).ctx)

Serve(i) ==
    /\ inflight[i].resp = NULL
    /\ inflight' = [inflight EXCEPT ![i].resp = Ptr(Answer(inflight[i].req, now))]
    /\ UNCHANGED <<now, dbVars, csvVars, httpVars, token, user, storage, lastError,
                   viewVars, plotVars>>

\* request() after "await fetch": what it throws ("" when it returns), and
\* whether it calls logout().
SessionExpired(resp, tok) == resp.status = 401 /\ tok # NULL
Thrown(resp, tok) ==
    IF resp.status \in {200, 201} THEN ""
    ELSE IF SessionExpired(resp, tok) THEN "Session expired"
    ELSE IF resp.error # "" THEN resp.error
    ELSE "Request failed"

\* The auth state after request() and its caller got the response:
\* logout() on an expired session, setAuth(data.token, data.user) in
\* Login.handleSubmit on success.
AuthAfter(m, tok, usr, store) ==
    IF m.resp[1].status \notin {200, 201} /\ SessionExpired(m.resp[1], tok)
    THEN logout(store)
    ELSE IF m.resp[1].status = 200 /\ m.req.route = "Login"
    THEN setAuth(Ptr(m.resp[1].body.token), Ptr(m.resp[1].body.user), store)
    ELSE [token |-> tok, user |-> usr, storage |-> store]

Without(s, i) == SubSeq(s, 1, i - 1) \o SubSeq(s, i + 1, Len(s))

Receive(i) ==
    /\ inflight[i].resp # NULL
    /\ inflight' = Without(inflight, i)
    /\ lastReq' = inflight[i].req
    /\ lastResp' = inflight[i].resp[1]
    /\ \E a \in {AuthAfter(inflight[i], token, user, storage)} :
          token' = a.token /\ user' = a.user /\ storage' = a.storage
    /\ lastError' = IF Thrown(inflight[i].resp[1], token) # ""
                    THEN Thrown(inflight[i].resp[1], token) ELSE lastError
    /\ UNCHANGED <<now, dbVars, csvVars, issued, viewVars, plotVars>>

NextFE ==
    \/ Tick
    \/ \E body \in LoginBodies : handleSubmit(body)
    \/ loadCurves
    \/ loadStats
    \/ handleLogout
    \/ loadFromStorage
    \/ \E i \in DOMAIN inflight : Serve(i)
    \/ \E i \in DOMAIN inflight : Receive(i)

SpecFE == Init /\ [][NextFE]_vars

\* A step in which request() got a response.
Received ==
    \E i \in DOMAIN inflight :
        /\ inflight[i].resp # NULL
        /\ Len(inflight') = Len(inflight) - 1
        /\ lastReq' = inflight[i].req

Cleared ==
    [emoons_token |-> NULL, emoons_user |-> NULL]

\* C10: when a call made while a token was held gets 401, the token and
\* the user are gone from memory and from localStorage afterwards and the
\* Login view is shown; a 401 got while no token is held leaves the auth
\* state as it was and surfaces the server's error message.
C10_SessionExpiry ==
    [][(Received /\ lastResp'.status = 401) =>
         /\ lastReq'.header # <<>> =>
               /\ token' = NULL /\ user' = NULL /\ storage' = Cleared
               /\ LoginViewShown'
         /\ token = NULL =>
               /\ UNCHANGED <<token, user, storage>>
               /\ lastError' = lastResp'.error]_vars

\* An expired session: a call sent with the token held got 401 and the
\* frontend logged out.
C10_Witness ==
    /\ lastReq.route = "GetCurves" /\ lastReq.header # <<>>
    /\ lastResp.status = 401
    /\ lastError = "Session expired"
    /\ token = NULL /\ storage = Cleared
    /\ Len(inflight) > 0

(***************************************************************************)
(* Logout, checked under SpecAuth.                                         *)
(***************************************************************************)
\* C11: a step that serves POST /api/auth/logout changes no table, and the
\* request that follows a successful logout with the same Authorization
\* header passes AuthRequired exactly when the token has not expired.
C11_LogoutClientOnly ==
    [][/\ (ServesApi /\ lastReq'.route = "Logout") => UNCHANGED dbVars
       /\ (ServesApi /\ lastReq.route = "Logout" /\ lastResp.status = 200
              /\ lastReq'.header = lastReq.header) =>
             (lastResp'.status # 401 <=> lastReq'.at < lastReq.header[3].exp)]_vars

\* A logout was served for a genuine token that has not expired, the
\* client still holds the token, and the tables hold data.
C11_Witness ==
    /\ lastReq.route = "Logout" /\ lastResp.status = 200
    /\ lastResp.body = "Logged out"
    /\ WellAuthorized(lastReq) /\ now < lastReq.header[3].exp
    /\ lastReq.header[3] \in issued
    /\ Classifications # {}

(***************************************************************************)
(* TransitViewer and TransitNavigation.  A state update is followed by the *)
(* render at once, and the render gives the buttons and the number input   *)
(* their new handlers; the keydown listener on window is registered by a   *)
(* useEffect callback, which runs after the render has been painted, so a  *)
(* key pressed in between reaches the listener of the previous render.     *)
(***************************************************************************)
MaxTransits == 3       \* transits of a light curve
MaxPendingLoads == 2   \* calls of loadTransits awaiting their response

\* The response of api.getCurveTransits for a curve with n transits.
TransitList(n) == [i \in 1..n |-> [transit_index |-> i - 1]]

\* A state update by the setters, and the render that follows it.
Rendered(newTransits, newIndex) ==
    /\ transits' = newTransits
    /\ currentIndex' = newIndex
    /\ effectsPending' = (effectsPending \/ newTransits # transits
                                         \/ newIndex # currentIndex)
    /\ UNCHANGED keyHandler

ViewFrame == UNCHANGED <<now, dbVars, csvVars, httpVars, token, user, storage,
                         inflight, lastError, plotVars>>

\* goToPrevious and goToNext as closures over the values of one render.
goToPrevious(idx) == IF idx > 0 THEN idx - 1 ELSE currentIndex
goToNext(idx, length) == IF idx < length - 1 THEN idx + 1 ELSE currentIndex

\* goToTransit(index); index is NaN when parseInt found no number.
goToTransit(index) ==
    IF index.ok /\ index.val >= 0 /\ index.val < Len(transits)
    THEN index.val ELSE currentIndex

\* parseInt(e.target.value, 10) - 1
parseIntMinusOne(text) == [ok |-> Atoi(text).ok, val |-> Atoi(text).val - 1]

\* The buttons of TransitNavigation; they are rendered when the list is
\* not empty.
onPrev ==
    /\ Len(transits) > 0
    /\ Rendered(transits, goToPrevious(currentIndex))
    /\ UNCHANGED pendingLoads /\ ViewFrame

onNext ==
    /\ Len(transits) > 0
    /\ Rendered(transits, goToNext(currentIndex, Len(transits)))
    /\ UNCHANGED pendingLoads /\ ViewFrame

\* The number input of TransitNavigation.
onGoTo(text) ==
    /\ Len(transits) > 0
    /\ Rendered(transits, goToTransit(parseIntMinusOne(text)))
    /\ UNCHANGED pendingLoads /\ ViewFrame

\* handleKeyDown of the listener that is registered on window.
handleKeyDown(key) ==
    /\ \/ /\ key \in {"ArrowLeft", "a"}
          /\ Rendered(transits, goToPrevious(keyHandler.currentIndex))
       \/ /\ key \in {"ArrowRight", "d"}
          /\ Rendered(transits, goToNext(keyHandler.currentIndex, keyHandler.length))
    /\ UNCHANGED pendingLoads /\ ViewFrame

\* The useEffect callbacks run: the old listener is removed and one that
\* closes over the values of the last render is added.
flushEffects ==
    /\ effectsPending
    /\ keyHandler' = [currentIndex |-> currentIndex, length |-> Len(transits)]
    /\ effectsPending' = FALSE
    /\ UNCHANGED <<transits, currentIndex, pendingLoads>> /\ ViewFrame

\* The curve prop changes: useEffect([curve]) calls loadTransits, which
\* awaits api.getCurveTransits.
selectCurve ==
    /\ pendingLoads < MaxPendingLoads
    /\ pendingLoads' = pendingLoads + 1
    /\ UNCHANGED <<transits, currentIndex, keyHandler, effectsPending>> /\ ViewFrame

\* loadTransits after the await: setTransits(data || []); setCurrentIndex(0)
loadTransitsReturns(n) ==
    /\ pendingLoads > 0
    /\ pendingLoads' = pendingLoads - 1
    /\ Rendered(TransitList(n), 0)
    /\ ViewFrame

\* loadTransits, catch: setTransits([])
loadTransitsFails ==
    /\ pendingLoads > 0
    /\ pendingLoads' = pendingLoads - 1
    /\ Rendered(<<>>, currentIndex)
    /\ ViewFrame

GoToInputs == {<<>>, <<"x">>, <<"0">>, <<"1">>, <<"3">>, <<"9">>, <<"-", "1">>}
Keys == {"ArrowLeft", "a", "ArrowRight", "d"}

NextView ==
    \/ onPrev
    \/ onNext
    \/ \E text \in GoToInputs : onGoTo(text)
    \/ \E key \in Keys : handleKeyDown(key)
    \/ flushEffects
    \/ selectCurve
    \/ \E n \in 0..MaxTransits : loadTransitsReturns(n)
    \/ loadTransitsFails

SpecView == Init /\ [][NextView]_vars

\* C12: whenever the transit list is not empty, currentIndex is within
\* [0, transits.length - 1].
C12_NavigationInRange ==
    Len(transits) > 0 => (currentIndex >= 0 /\ currentIndex <= Len(transits) - 1)

(***************************************************************************)
(* The plotter (plotter/generate_plots.py, package transit_plotter): the   *)
(* pipeline Loader -> Segmenter -> Fitter -> Renderer -> Exporter.  Times  *)
(* are in tenths of a day; flux values play no part in what is checked     *)
(* here and are left out.                                                  *)
(***************************************************************************)
MinFitPoints == 4     \* samples the solver needs; a window of 3 is too small
WindowMultiplier == 1 \* half-window margin w = duration * multiplier

Floor(a, b) == a \div b
Ceil(a, b) == -((-a) \div b)
Abs(x) == IF x < 0 THEN -x ELSE x
SetMin(S) == CHOOSE x \in S : \A y \in S : x <= y
SetMax(S) == CHOOSE x \in S : \A y \in S : x >= y

\* An input file: the header values (NULL: missing or unparseable), the
\* time column of its data rows, and the timing offset its transits show.
InputFile(period, epoch, duration, times, shift) ==
    [period |-> period, epoch |-> epoch, duration |-> duration,
     times |-> times, shift |-> shift]

\* Curve Loader: a LightCurve, or MalformedHeader, or MalformedData when
\* the data section has fewer than 2 rows.
Loader(name, file) ==
    IF file.period = NULL \/ file.epoch = NULL \/ file.duration = NULL
    THEN [error |-> "MalformedHeader", curve |-> NULL]
    ELSE IF Cardinality(file.times) < 2
    THEN [error |-> "MalformedData", curve |-> NULL]
    ELSE [error |-> "",
          curve |-> Ptr([filename |-> name,
                         period |-> file.period[1], epoch |-> file.epoch[1],
                         duration |-> file.duration[1],
                         rp |-> 1, a |-> 80, inc |-> 890, u1 |-> 4, u2 |-> 6,
                         times |-> file.times, shift |-> file.shift])]

\* The candidate epochs t_k = epoch + k * period that cover [t_min, t_max].
Candidates(lc) ==
    Ceil(SetMin(lc.times) - lc.epoch, lc.period)
       .. Floor(SetMax(lc.times) - lc.epoch, lc.period)
EpochOf(lc, k) == lc.epoch + k * lc.period

\* A candidate is kept when a sample lies strictly inside
\* [t_k - duration/2, t_k + duration/2].
Kept(lc, k) == \E t \in lc.times : 2 * Abs(t - EpochOf(lc, k)) < lc.duration
KeptCandidates(lc) == {k \in Candidates(lc) : Kept(lc, k)}

\* An index that is the candidate's position in the ephemeris sequence.
WindowIndex_CandidatePosition(lc, k) == k - SetMin(Candidates(lc))

\* Kept windows get sequential 0-based indices in chronological order.
WindowIndex(lc, k) == Cardinality({j \in KeptCandidates(lc) : j < k})

\* The kept candidates in chronological order.
RECURSIVE Ascending(_)
Ascending(K) ==
    IF K = {} THEN <<>> ELSE <<SetMin(K)>> \o Ascending(K \ {SetMin(K)})

TransitWindow(lc, k) ==
    [index |-> WindowIndex(lc, k),
     expected |-> EpochOf(lc, k),
     samples |-> {t \in lc.times :
                    Abs(t - EpochOf(lc, k)) <= lc.duration * WindowMultiplier}]

\* Transit Segmenter: the windows, or InvalidEphemeris.
Segmenter(lc) ==
    IF lc.period <= 0 \/ lc.duration <= 0
    THEN [error |-> "InvalidEphemeris", windows |-> <<>>]
    ELSE [error |-> "",
          windows |-> [i \in 1..Cardinality(KeptCandidates(lc)) |->
                         TransitWindow(lc, Ascending(KeptCandidates(lc))[i])]]

\* Model Fitter: fitted fields are null when fitting is skipped or does
\* not converge; rp_fitted and a_fitted then hold the catalog values.
Converges(w) == Cardinality(w.samples) >= MinFitPoints
TTVMinutes(fitted, expected) == (fitted - expected) * 1440
Fitter(lc, w, skip_fitting) ==
    IF skip_fitting \/ ~Converges(w)
    THEN [unfitted |-> TRUE, t0_fitted |-> NULL, ttv_minutes |-> NULL,
          rms_residuals |-> NULL, rp_fitted |-> lc.rp, a_fitted |-> lc.a]
    ELSE [unfitted |-> FALSE, t0_fitted |-> Ptr(w.expected + lc.shift),
          ttv_minutes |-> Ptr(TTVMinutes(w.expected + lc.shift, w.expected)),
          rms_residuals |-> Ptr(1), rp_fitted |-> lc.rp, a_fitted |-> lc.a]

\* Numbers as the exporter writes them: integers in decimal, floats with
\* one fraction digit (v is in tenths), a null as the empty string.
DigitChar(d) == <<"0", "1", "2", "3", "4", "5", "6", "7", "8", "9">>[d + 1]
RECURSIVE Numeral(_)
Numeral(n) ==
    IF n < 10 THEN <<DigitChar(n)>> ELSE Numeral(n \div 10) \o <<DigitChar(n % 10)>>
FormatInt(n) == IF n < 0 THEN <<"-">> \o Numeral(-n) ELSE Numeral(n)
FormatFloat(v) ==
    (IF v < 0 THEN <<"-">> ELSE <<>>)
       \o Numeral(Abs(v) \div 10) \o <<".">> \o <<DigitChar(Abs(v) % 10)>>
FormatNullable(p) == IF p = NULL THEN <<>> ELSE FormatFloat(p[1])

\* The PNG of a transit: <source-stem>_<index>.png
PlotFile(name, index) == name \o <<"_">> \o Numeral(index) \o <<".png">>

Exists(dir, name) == \E f \in dir : f.name = name

\* A renderer that writes the file whether or not it exists.
Renderer_AlwaysWrites(dir, name, content, force, run) ==
    [plots |-> {f \in dir : f.name # name}
                  \cup {[name |-> name, content |-> content, mtime |-> run]},
     skipped |-> FALSE]

\* Plot Renderer: writes one file; an existing file is overwritten only
\* with the force flag, otherwise the skip is reported.  mtime is the run
\* that wrote the file.
Renderer(dir, name, content, force, run) ==
    IF Exists(dir, name) /\ ~force
    THEN [plots |-> dir, skipped |-> TRUE]
    ELSE [plots |-> {f \in dir : f.name # name}
                       \cup {[name |-> name, content |-> content, mtime |-> run]},
          skipped |-> FALSE]

\* Metadata Exporter (a): the record of one transit in transits.csv.
TransitRow(lc, w, fit) ==
    <<lc.filename, FormatInt(w.index), FormatFloat(w.expected),
      FormatNullable(fit.t0_fitted), FormatNullable(fit.ttv_minutes),
      FormatFloat(fit.rp_fitted), FormatFloat(fit.a_fitted),
      FormatNullable(fit.rms_residuals), FormatFloat(lc.period),
      FormatFloat(lc.duration), FormatFloat(lc.inc), FormatFloat(lc.u1),
      FormatFloat(lc.u2), PlotFile(lc.filename, w.index)>>

\* Metadata Exporter (b): the record of one input file in curves.csv.
CurveRow(lc, nWindows) ==
    <<lc.filename, FormatFloat(SetMin(lc.times)), FormatFloat(SetMax(lc.times)),
      FormatInt(Cardinality(Candidates(lc))), FormatInt(nWindows), <<"sim">>,
      FormatFloat(lc.period), FormatFloat(lc.epoch), FormatFloat(lc.duration),
      FormatFloat(lc.rp), FormatFloat(lc.a), FormatFloat(lc.inc),
      FormatFloat(lc.u1), FormatFloat(lc.u2)>>

\* The rows of the files that were processed, ordered by file and then by
\* transit index.
RECURSIVE TransitRowsOf(_, _)
TransitRowsOf(J, i) ==
    IF i > Len(J) THEN <<>>
    ELSE (IF J[i].phase = "done" THEN J[i].rows ELSE <<>>) \o TransitRowsOf(J, i + 1)
RECURSIVE CurveRowsOf(_, _)
CurveRowsOf(J, i) ==
    IF i > Len(J) THEN <<>>
    ELSE (IF J[i].phase = "done"
          THEN <<CurveRow(J[i].curve[1], Len(J[i].windows))>> ELSE <<>>)
            \o CurveRowsOf(J, i + 1)

\* Both tables are written wholesale, a header record first.
Exporter(J) ==
    [transits |-> CsvFile(<<HeaderRecord(14)>> \o TransitRowsOf(J, 1)),
     curves |-> CsvFile(<<HeaderRecord(14)>> \o CurveRowsOf(J, 1))]

(***************************************************************************)
(* The batch run of the plotter: every input file goes through Loader,     *)
(* Segmenter, Fitter and Renderer once; up to MaxWorkers files are in work *)
(* at a time; the two tables are exported when every file is finished.     *)
(***************************************************************************)
MaxRuns == 2       \* runs of the plotter over the same input directory
MaxWorkers == 2    \* files in work at the same time

\* Light-curve files: times and durations in tenths of a day.
DenseFile == InputFile(Ptr(3), Ptr(0), Ptr(2), 0..8, 1)
GappedFile == InputFile(Ptr(3), Ptr(1), Ptr(4), {1, 2, 6, 7, 8, 9}, -1)
LateEpochFile == InputFile(Ptr(3), Ptr(7), Ptr(2), 0..8, 0)
NoPeriodFile == InputFile(NULL, Ptr(0), Ptr(2), 0..8, 1)
OneRowFile == InputFile(Ptr(3), Ptr(0), Ptr(2), {0}, 1)
ZeroPeriodFile == InputFile(Ptr(0), Ptr(0), Ptr(2), 0..8, 1)
ZeroDurationFile == InputFile(Ptr(3), Ptr(0), Ptr(0), 0..8, 1)

InputDirs ==
    { <<DenseFile>>, <<GappedFile>>, <<LateEpochFile>>, <<ZeroDurationFile>>,
      <<DenseFile, GappedFile>>, <<GappedFile, LateEpochFile>>,
      <<NoPeriodFile, DenseFile>>, <<GappedFile, OneRowFile>>,
      <<ZeroPeriodFile, GappedFile>>, <<LateEpochFile, ZeroDurationFile>> }

\* The i-th file of the input directory is a.csv, the next b.csv.
StemOf(i) == <<FA, FB>>[i]

Queued == [phase |-> "queued", error |-> "", curve |-> NULL, windows |-> <<>>,
           next |-> 1, rows |-> <<>>]

InitPlot ==
    /\ now = 0
    /\ Users = {} /\ userSeq = 0
    /\ Curves = {} /\ Transits = {} /\ transitSeq = 0
    /\ Classifications = {}
    /\ curvesCsv = NoFile /\ transitsCsv = NoFile /\ loads = 0
    /\ InitHttp /\ InitFrontend
    /\ inputDir \in InputDirs
    /\ \E skip \in BOOLEAN : runCfg = [Idle EXCEPT !.skip_fitting = skip]
    /\ jobs = <<>> /\ summary = NoSummary /\ plots = {} /\ outCsv = EmptyOutCsv

serverVars == <<now, dbVars, csvVars, httpVars, feVars>>

InWork == {i \in 1..Len(jobs) : jobs[i].phase = "segmented"}
Finished(J) == \A i \in 1..Len(J) : J[i].phase \in {"done", "failed"}

\* generate_plots.py starts: nothing of an earlier run is kept but the
\* files in the output directory.
StartRun(force) ==
    /\ runCfg.phase \in {"idle", "exported"}
    /\ runCfg.run < MaxRuns
    /\ runCfg' = [runCfg EXCEPT !.run = @ + 1, !.force = force, !.phase = "running"]
    /\ jobs' = [i \in 1..Len(inputDir) |-> Queued]
    /\ summary' = NoSummary
    /\ outCsv' = [outCsv EXCEPT !.writes = 0]
    /\ UNCHANGED <<serverVars, inputDir, plots>>

\* A file-level error aborts the run: no other file is processed.
FailFile_AbortsRun(J, i, err) ==
    [j \in 1..Len(J) |->
        IF j = i \/ J[j].phase = "queued"
        THEN [J[j] EXCEPT !.phase = "failed", !.error = err] ELSE J[j]]

\* A file-level error aborts that file only.
FailFile(J, i, err) == [J EXCEPT ![i].phase = "failed", ![i].error = err]

CountFailed(J) == Cardinality({i \in 1..Len(J) : J[i].phase = "failed"})

\* A worker takes the next file: Loader, then Segmenter.
LoadFile(i) ==
    /\ runCfg.phase = "running"
    /\ i \in 1..Len(jobs) /\ jobs[i].phase = "queued"
    /\ Cardinality(InWork) < MaxWorkers
    /\ \E l \in {Loader(StemOf(i), inputDir[i])} :
         IF l.error # ""
         THEN jobs' = FailFile(jobs, i, l.error)
         ELSE \E sg \in {Segmenter(l.curve[1])} :
                IF sg.error # ""
                THEN jobs' = FailFile(jobs, i, sg.error)
                ELSE jobs' = [jobs EXCEPT ![i].phase = "segmented",
                                          ![i].curve = l.curve,
                                          ![i].windows = sg.windows]
    /\ summary' = [summary EXCEPT !.failed = CountFailed(jobs')]
    /\ UNCHANGED <<serverVars, inputDir, runCfg, plots, outCsv>>

\* What the figure shows: the samples of the window and the model curve,
\* centred on the fitted time or, for an unfitted transit, the expected one.
PlotContent(w, fit) ==
    [samples |-> w.samples,
     model |-> IF fit.unfitted THEN w.expected ELSE fit.t0_fitted[1]]

\* A worker that appends the row of its transit to transits.csv itself.
CsvAfterTransit_WorkerAppends(csv, row) ==
    [csv EXCEPT !.transits = CsvFile((IF @.exists THEN @.records
                                      ELSE <<HeaderRecord(14)>>) \o <<row>>),
                !.writes = @ + 1]

\* The workers collect their rows in memory and leave the tables alone.
CsvAfterTransit(csv, row) == csv

\* The worker of file i fits and renders its next transit.
ProcessTransit(i) ==
    /\ runCfg.phase = "running"
    /\ i \in 1..Len(jobs) /\ jobs[i].phase = "segmented"
    /\ jobs[i].next <= Len(jobs[i].windows)
    /\ LET lc == jobs[i].curve[1]
           w == jobs[i].windows[jobs[i].next]
           fit == Fitter(lc, w, runCfg.skip_fitting)
           r == Renderer(plots, PlotFile(lc.filename, w.index),
                         PlotContent(w, fit), runCfg.force, runCfg.run)
       IN /\ plots' = r.plots
          /\ summary' = [summary EXCEPT
                           !.skipped = @ + (IF r.skipped THEN 1 ELSE 0)]
          /\ jobs' = [jobs EXCEPT ![i].rows = Append(@, TransitRow(lc, w, fit)),
                                  ![i].next = @ + 1]
          /\ outCsv' = CsvAfterTransit(outCsv, TransitRow(lc, w, fit))
    /\ UNCHANGED <<serverVars, inputDir, runCfg>>

\* The worker of file i is through with its transits.
FinishFile(i) ==
    /\ runCfg.phase = "running"
    /\ i \in 1..Len(jobs) /\ jobs[i].phase = "segmented"
    /\ jobs[i].next > Len(jobs[i].windows)
    /\ jobs' = [jobs EXCEPT ![i].phase = "done"]
    /\ summary' = [summary EXCEPT !.processed = @ + 1]
    /\ UNCHANGED <<serverVars, inputDir, runCfg, plots, outCsv>>

\* The single writer: both tables, once, when every file is finished.
Export ==
    /\ runCfg.phase = "running"
    /\ Finished(jobs)
    /\ \E e \in {Exporter(jobs)} :
         outCsv' = [transits |-> e.transits, curves |-> e.curves,
                    writes |-> outCsv.writes + 1]
    /\ runCfg' = [runCfg EXCEPT !.phase = "exported"]
    /\ UNCHANGED <<serverVars, inputDir, jobs, summary, plots>>

\* The backend starts on the output directory of a finished run.
BackendLoadCurves == runCfg.phase = "exported" /\ StartupLoadCurves(outCsv.curves)
BackendLoadTransits == runCfg.phase = "exported" /\ StartupLoadTransits(outCsv.transits)

NextPlot ==
    \/ \E force \in BOOLEAN : StartRun(force)
    \/ \E i \in 1..Len(jobs) : LoadFile(i)
    \/ \E i \in 1..Len(jobs) : ProcessTransit(i)
    \/ \E i \in 1..Len(jobs) : FinishFile(i)
    \/ Export
    \/ BackendLoadCurves
    \/ BackendLoadTransits

SpecPlot == InitPlot /\ [][NextPlot]_vars

Segmented(i) == i \in 1..Len(jobs) /\ jobs[i].phase \in {"segmented", "done"}

\* C13: for every light curve with period > 0 and duration > 0 the kept
\* windows carry the indices 0..m-1 in chronological order, with no gap and
\* no repeat, whichever candidate epochs were dropped.
C13_SequentialIndices ==
    \A i \in 1..Len(jobs) :
       Segmented(i) =>
          /\ jobs[i].curve[1].period > 0 /\ jobs[i].curve[1].duration > 0
          /\ Len(jobs[i].windows) = Cardinality(KeptCandidates(jobs[i].curve[1]))
          /\ \A j \in 1..Len(jobs[i].windows) :
                /\ jobs[i].windows[j].index = j - 1
                /\ j > 1 => jobs[i].windows[j - 1].expected
                                < jobs[i].windows[j].expected

\* A light curve with a dropped candidate between two kept windows.
C13_Witness ==
    \E i \in 1..Len(jobs) :
       /\ Segmented(i)
       /\ Len(jobs[i].windows) >= 2
       /\ \E k \in Candidates(jobs[i].curve[1]) :
             /\ ~Kept(jobs[i].curve[1], k)
             /\ \E a, b \in KeptCandidates(jobs[i].curve[1]) : a < k /\ k < b

\* A step in which the worker of file i rendered the transit it was at.
RenderStep(i) ==
    /\ i \in 1..Len(jobs) /\ Len(jobs') = Len(jobs)
    /\ jobs[i].phase = "segmented" /\ jobs'[i].next = jobs[i].next + 1
PlotOfNext(i) ==
    PlotFile(jobs[i].curve[1].filename, jobs[i].windows[jobs[i].next].index)

\* C14: without the force flag the renderer leaves every existing plot
\* file as it is and reports the skip; a second run over the same input
\* without the flag leaves the PNG files and the contents of both tables as
\* the first run left them.
C14_NoOverwriteWithoutForce ==
    [][/\ ~runCfg'.force => \A f \in plots : f \in plots'
       /\ \A i \in 1..Len(jobs) :
             (RenderStep(i) /\ ~runCfg.force /\ Exists(plots, PlotOfNext(i))) =>
                summary'.skipped = summary.skipped + 1
       /\ (runCfg.run >= 2 /\ ~runCfg.force /\ runCfg'.run = runCfg.run) =>
             /\ plots' = plots
             /\ outCsv.transits.exists => outCsv'.transits = outCsv.transits
             /\ outCsv.curves.exists => outCsv'.curves = outCsv.curves]_vars

\* The second run, without the flag, has exported; every plot is still the
\* file the first run wrote.
C14_Witness ==
    /\ runCfg.run = 2 /\ ~runCfg.force /\ runCfg.phase = "exported"
    /\ outCsv.writes = 1 /\ Len(outCsv.transits.records) > 2
    /\ summary.skipped >= 2 /\ Cardinality(plots) = summary.skipped
    /\ \A f \in plots : f.mtime = 1

\* The file-level error of the i-th input file, "" when it has none.
ErrorOf(i) ==
    LET l == Loader(StemOf(i), inputDir[i])
    IN IF l.error # "" THEN l.error ELSE Segmenter(l.curve[1]).error
FileErrors == {"MalformedHeader", "MalformedData", "InvalidEphemeris"}

\* The records of transits.csv that belong to file i.
RowsOfFile(i) ==
    {n \in 2..Len(outCsv.transits.records) :
        outCsv.transits.records[n][1] = StemOf(i)}

\* C15: a file-level error aborts that file only and is counted in the run
\* summary while the run goes on to export; a fit that fails aborts
\* nothing: its transit is exported, with the fitted fields absent.
C15_ErrorsContained ==
    runCfg.phase = "exported" =>
       /\ summary.failed = Cardinality({i \in 1..Len(inputDir) : ErrorOf(i) # ""})
       /\ summary.processed = Cardinality({i \in 1..Len(inputDir) : ErrorOf(i) = ""})
       /\ \A i \in 1..Len(inputDir) :
             IF ErrorOf(i) # ""
             THEN /\ ErrorOf(i) \in FileErrors
                  /\ jobs[i].phase = "failed" /\ jobs[i].error = ErrorOf(i)
                  /\ RowsOfFile(i) = {}
             ELSE /\ jobs[i].phase = "done"
                  /\ Cardinality(RowsOfFile(i)) = Len(jobs[i].windows)
                  /\ \A j \in 1..Len(jobs[i].windows) :
                        \E n \in RowsOfFile(i) :
                           LET row == outCsv.transits.records[n] IN
                           /\ row[2] = FormatInt(j - 1)
                           /\ row[3] = FormatFloat(jobs[i].windows[j].expected)
                           /\ ~Converges(jobs[i].windows[j]) =>
                                 row[4] = <<>> /\ row[5] = <<>> /\ row[8] = <<>>

\* A run with fitting on has exported: one file failed, the other has a
\* transit whose fit failed next to one whose fit converged.
C15_Witness ==
    /\ runCfg.phase = "exported" /\ ~runCfg.skip_fitting
    /\ summary.failed = 1 /\ summary.processed = 1
    /\ \E i \in 1..Len(jobs) :
          /\ jobs[i].phase = "done"
          /\ \E j, k \in 1..Len(jobs[i].windows) :
                /\ ~Converges(jobs[i].windows[j])
                /\ Converges(jobs[i].windows[k])
                /\ Len(jobs[i].rows[j][4]) = 0 /\ Len(jobs[i].rows[k][4]) > 0

TableWritten(t) == outCsv'[t] # outCsv[t]
WholeRows(file) == \A n \in 1..Len(file.records) : Len(file.records[n]) = 14

\* C16: each of the two tables is written once, at the end of the run, by
\* the single writer and only when every file is finished; no worker
\* writes them, so no table holds a partial row or the rows of two files
\* interleaved.
C16_SingleWriterAtEnd ==
    [][/\ (TableWritten("transits") \/ TableWritten("curves")
              \/ outCsv'.writes > outCsv.writes) =>
             /\ runCfg.phase = "running" /\ runCfg'.phase = "exported"
             /\ Finished(jobs) /\ jobs' = jobs
             /\ outCsv.writes = 0 /\ outCsv'.writes = 1
             /\ WholeRows(outCsv'.transits) /\ WholeRows(outCsv'.curves)
             /\ \A n, m \in 2..Len(outCsv'.transits.records) :
                   (n < m) => ~(/\ outCsv'.transits.records[n][1] = FB
                                /\ outCsv'.transits.records[m][1] = FA)
       /\ runCfg'.phase = "running" => outCsv'.writes = 0]_vars

\* Two workers have each fitted and rendered a transit of their file and
\* neither table has been written in this run.
C16_Witness ==
    /\ runCfg.phase = "running" /\ Cardinality(InWork) = 2
    /\ \A i \in InWork : jobs[i].next > 1 /\ Len(jobs[i].rows) > 0
    /\ outCsv.writes = 0 /\ ~outCsv.transits.exists

\* ttv_minutes is there exactly when the fitted time is, and is then
\* (fitted - expected) * 1440.  Times are in tenths of a day and the
\* variation in tenths of a minute, so the factor is the same.
TTVRelation(expected, fitted, ttv) ==
    /\ ttv = NULL <=> fitted = NULL
    /\ ttv # NULL => ttv[1] = (fitted[1] - expected) * 1440

\* The same of a record of transits.csv.
TTVRelationOfRecord(row) ==
    /\ Len(row[5]) = 0 <=> Len(row[4]) = 0
    /\ Len(row[5]) > 0 =>
          /\ ParseFloat(row[3]).ok /\ ParseFloat(row[4]).ok /\ ParseFloat(row[5]).ok
          /\ ParseFloat(row[5]).val
                = (ParseFloat(row[4]).val - ParseFloat(row[3]).val) * 1440

\* C17: for every transit, ttv_minutes is present exactly when the fitted
\* mid-transit time is, and equals (fitted_time - expected_time) * 1440
\* with that sign: in the rows the plotter produces and exports, in the
\* rows the backend stores and in the ones it serves.
C17_TTVMinutes ==
    /\ \A i \in 1..Len(jobs) : \A j \in 1..Len(jobs[i].rows) :
          TTVRelationOfRecord(jobs[i].rows[j])
    /\ \A n \in 2..Len(outCsv.transits.records) :
          TTVRelationOfRecord(outCsv.transits.records[n])
    /\ \A t \in Transits : TTVRelation(t.t0_expected, t.t0_fitted, t.ttv_minutes)
    /\ \A f \in {FA, FB} : \A index \in 0..3 :
          \E g \in {GetTransit(Curves, Transits, f, index)} :
             Len(g) > 0 => TTVRelation(g[1].t0_expected, g[1].t0_fitted,
                                        g[1].ttv_minutes)

\* The backend holds a transit that is early by 144 minutes and one, not
\* at time 0, that has no fitted time.
C17_Witness ==
    /\ \E t \in Transits :
          /\ Len(t.ttv_minutes) > 0 /\ t.ttv_minutes[1] = -1440
          /\ t.t0_fitted[1] = t.t0_expected - 1
    /\ \E t \in Transits :
          /\ Len(t.ttv_minutes) = 0 /\ Len(t.t0_fitted) = 0 /\ t.t0_expected > 0
    /\ \E t \in Transits : Len(t.ttv_minutes) > 0 /\ t.ttv_minutes[1] = 1440

(***************************************************************************)
(* Claims about the loaders and table Transits.                            *)
(***************************************************************************)
Loaded(loader) == loads' = loads + 1 /\ lastResp'.handler = loader
RowsOfCurve(T, c) == {t \in T : t.curve_id = c.id}

\* C18: after LoadTransitsFromCSV has returned without error, found_transits
\* of every curve is the number of rows of that curve in table Transits (0
\* for a curve without rows); LoadCurvesFromCSV changes found_transits of
\* no curve.
C18_FoundTransitsIsRowCount ==
    [][/\ (Loaded("LoadTransitsFromCSV") /\ lastResp'.error = "") =>
             \A c \in Curves' :
                c.found_transits = Cardinality(RowsOfCurve(Transits', c))
       /\ Loaded("LoadCurvesFromCSV") =>
             \A c \in Curves : \E d \in Curves' :
                d.id = c.id /\ d.filename = c.filename
                   /\ d.found_transits = c.found_transits]_vars

\* A successful load of transits.csv has left one curve with a row and one
\* without, and a record of the file was not inserted.
C18_Witness ==
    /\ lastResp = Returned("LoadTransitsFromCSV", "")
    /\ \E c, d \in Curves :
          /\ c.found_transits = 1 /\ Cardinality(RowsOfCurve(Transits, c)) = 1
          /\ d.found_transits = 0 /\ RowsOfCurve(Transits, d) = {}
    /\ Len(transitsCsv.records) - 1 > Cardinality(Transits)

\* The records of a file that have at least 14 fields and name a curve of C.
Qualifying(C, file) ==
    {n \in 2..Len(file.records) :
        /\ Len(file.records[n]) >= 14
        /\ Len(CurveByFilename(C, file.records[n][1])) > 0}

\* Row t holds the values of the n-th record of the file (its id aside).
HoldsRecord(C, t, file, n) ==
    [t EXCEPT !.id = 0]
       = TransitOfRecord(file.records[n],
                         CurveByFilename(C, file.records[n][1])[1].id, 0)

WithoutIds(T) == {[t EXCEPT !.id = 0] : t \in T}

\* C19: LoadTransitsFromCSV replaces the table wholesale: after a
\* successful load the table holds exactly the rows of the CSV that have at
\* least 14 fields and name a known curve, none of an earlier load, and
\* loading the same CSV again leaves the same content, row ids aside.
C19_ReplacesWholesale ==
    [][(Loaded("LoadTransitsFromCSV") /\ lastResp'.error = "") =>
          /\ \A n \in Qualifying(Curves, transitsCsv') :
                \E t \in Transits' : HoldsRecord(Curves, t, transitsCsv', n)
          /\ \A t \in Transits' :
                \E n \in Qualifying(Curves, transitsCsv') :
                   HoldsRecord(Curves, t, transitsCsv', n)
          /\ (lastResp = Returned("LoadTransitsFromCSV", "")
                 /\ transitsCsv' = transitsCsv) =>
                WithoutIds(Transits') = WithoutIds(Transits)]_vars

(***************************************************************************)
(* The timing values of a stored classification.                           *)
(***************************************************************************)
\* The row the last request, a successful save, has written.
RowSaved(r) ==
    SameKey(r, CurveByFilename(Curves, lastReq.file)[1].id,
            Atoi(lastReq.index).val - 1, CallerOf(lastReq))
TransitNamed == GetTransit(Curves, Transits, lastReq.file, Atoi(lastReq.index).val)
Sent(name) == Field(lastReq.body[1], name, NULL)

\* C20: when a classification is saved for (file, i) and transit (file, i)
\* exists, the row stored holds the transit's t0_expected, t0_fitted and
\* ttv_minutes whatever timing values the client sent; when there is no
\* such transit it holds the client's values as sent.
C20_TimingFromTransit ==
    SavedOK =>
       \E r \in Classifications :
          /\ RowSaved(r)
          /\ \E g \in {TransitNamed} :
                IF Len(g) > 0
                THEN /\ r.t_expected_bjd = Ptr(g[1].t0_expected)
                     /\ r.t_observed_bjd = g[1].t0_fitted
                     /\ r.ttv_minutes = g[1].ttv_minutes
                ELSE /\ r.t_expected_bjd = Sent("t_expected_bjd")
                     /\ r.t_observed_bjd = Sent("t_observed_bjd")
                     /\ r.ttv_minutes = Sent("ttv_minutes")

\* A client that sent timing values of its own has saved a transit that
\* exists, and the row does not hold them; another row, saved for an index
\* without transit, holds the values its client sent.
C20_Witness ==
    /\ SavedOK /\ Len(TransitNamed) > 0
    /\ Sent("t_expected_bjd") = Ptr(990)
    /\ \E r \in Classifications :
          RowSaved(r) /\ r.t_expected_bjd # Ptr(990) /\ Len(r.ttv_minutes) > 0
    /\ \E r \in Classifications :
          r.t_expected_bjd = Ptr(990) /\ r.t_observed_bjd = Ptr(995)

(***************************************************************************)
(* The ClassificationForm on a transit: it loads what the user has stored, *)
(* and every change of a checkbox or of the notes is saved as the whole    *)
(* form state.                                                             *)
(***************************************************************************)
\* The transits the viewer shows and the boxes and notes a user edits.
FormTransits == {FA, FB} \X {<<"0">>, <<"1">>}
FormFields == {"left_asymmetry", "bad_model_fit"}
FormNotes == {"", "n"}

\* The form state after loadClassification for the user of tok: a failed
\* request is caught and leaves the initial state.
FormLoaded(tok, file, index) ==
    LET resp == handlers_GetClassification(Curves, Classifications,
                    [user_id |-> tok.user_id], file, index)
    IN IF resp.status = 200 THEN loadClassification(resp.body)
       ELSE FormBody({}, "")

\* ClassificationForm.handleCheckboxChange and handleNotesChange: the new
\* form state, which scheduleAutoSave posts.
handleCheckboxChange(classification, field) ==
    [classification EXCEPT ![field] = ~@]
handleNotesChange(classification, value) ==
    [classification EXCEPT !.notes = value]

CheckboxChanged(tok, t, field) ==
    POST_classify(Bearer(tok), t[1], t[2],
                  Ptr(handleCheckboxChange(FormLoaded(tok, t[1], t[2]), field)))
NotesChanged(tok, t, value) ==
    POST_classify(Bearer(tok), t[1], t[2],
                  Ptr(handleNotesChange(FormLoaded(tok, t[1], t[2]), value)))

NextForm ==
    \/ \E body \in Credentials : POST_auth_login(body)
    \/ \E tok \in issued, t \in FormTransits, field \in FormFields :
          CheckboxChanged(tok, t, field)
    \/ \E tok \in issued, t \in FormTransits, value \in FormNotes :
          NotesChanged(tok, t, value)
    \/ \E tok \in issued : GET_stats(Bearer(tok))
    \/ \E tok \in issued : GET_curves(Bearer(tok))

SpecForm == Init /\ [][NextForm]_vars

\* The rows migration 007 deletes: every flag false and no notes.
EmptyClassification(r) == (\A f \in InputFlags : ~r[f]) /\ r.notes = ""

\* C21: empty classifications are not kept: no row of table
\* Classifications has all flags false and no notes, so that a transit whose
\* last box was unchecked counts neither in classified_count nor in
\* total_classified.
C21_EmptyNotKept ==
    /\ \A r \in Classifications : ~EmptyClassification(r)
    /\ \A u \in Users :
          GetUserStats(Curves, Classifications, u.id).total_classified
             = Cardinality({r \in Classifications :
                              r.user_id = u.id /\ ~EmptyClassification(r)})

\* The errors LoadTransitsFromCSV returns before its first statement on
\* the database.
EarlyErrors == {"failed to open CSV", "failed to read CSV", "CSV has no data rows"}

\* A file os.Open opens, csv.ReadAll parses, and that has a data row.
Loadable(file) ==
    /\ file.exists
    /\ \A i \in 1..Len(file.records) : Len(file.records[i]) = Len(file.records[1])
    /\ Len(file.records) >= 2

\* C22: when transits.csv cannot be opened, cannot be parsed or has no data
\* row, LoadTransitsFromCSV returns an error and has touched nothing: table
\* Transits and every found_transits are as before; startup goes on after
\* the warning.
C22_FailedLoadTouchesNothing ==
    [][Loaded("LoadTransitsFromCSV") =>
          /\ lastResp'.error = "" => Loadable(transitsCsv')
          /\ lastResp'.error # "" =>
                /\ lastResp'.error \in EarlyErrors
                /\ Transits' = Transits /\ transitSeq' = transitSeq
                /\ Curves' = Curves /\ transitsCsv' = transitsCsv
                /\ loads' < MaxLoads => ENABLED NextLoad]_vars

\* A load of a transits.csv without data row has failed and the rows and
\* counts of the load before are still there.
C22_Witness ==
    /\ lastResp = Returned("LoadTransitsFromCSV", "CSV has no data rows")
    /\ Transits # {} /\ Loadable(transitsCsv)
    /\ \E c \in Curves : c.found_transits > 0

====
